---- MODULE Spec2Model ----
(***************************************************************************)
(* Service-node registry, rollback journal, winner selection and coinbase  *)
(* construction/validation of Equilibria, modelled from                    *)
(* src/cryptonote_core/service_node_list.cpp and cryptonote_tx_utils.cpp.  *)
(*                                                                         *)
(* Amounts are scaled: one model unit stands for a quarter of the staking  *)
(* requirement, STAKING_PORTIONS is 4 instead of 2^64-4.  64-bit unsigned  *)
(* arithmetic is kept modular (U64) where the code can wrap.               *)
(***************************************************************************)
EXTENDS Integers, Sequences, FiniteSets, TLC

(***************************************************************************)
(* Bounds of the model.                                                    *)
(***************************************************************************)
\* number of blocks the chain may grow above the hard-fork-5 height
MaxBlocks == 2
\* number of transactions a chain may carry in total
MaxTxs == 2
\* blocks at or above the fork and staking transactions in a run of the
\* block-template specification
MinerBlocks == 4
MinerTxs == 2
\* blocks at or above the fork in a run of the quorum specification
QuorumBlocks == 3
\* blocks at or above the fork and staking transactions in a run of the
\* quorum-cache specification
CacheBlocks == 8
CacheTxs == 0
\* add_tx calls and clock ticks in a run of the pool specification
MaxAdds == 2
MaxTime == 3
\* add_tx calls in a run of the admission specification
AdmissionAdds == 2
\* add_tx calls and clock ticks before a transaction is admitted, taken and
\* admitted again
RoundTripAdds == 1
RoundTripTime == 2
\* blocks at or above the fork, and staking transactions, while the registry is read
ReaderBlocks == 2
ReaderTxs == 1
\* add_tx calls while the pool is called from several threads
LockAdds == 2
\* blocks at or above the fork in a run of the registration specification
RegistrationBlocks == 1
\* blocks at or above the fork in a run of the contribution specification
ContributionBlocks == 1
\* blocks above the fork block in a run of the deregistration specification
DeregistrationBlocks == 1
\* blocks above the fork block in a run of the winner specification
WinnerBlocks == 3
\* add_tx calls and clock ticks of the relay schedule
RelayAdds == 2
RelayTime == 2
\* add_tx calls before a block template is filled
TemplateAdds == 2
\* largest value get_block_reward returns in the reward specification
MaxReward == 9
\* number of blocks below the hard fork 5 height that the chain starts with
PreFork == 1
\* number of deregistration transactions in a run
MaxDeregs == 1
\* number of chain reorganisations (detach calls) in a run
MaxDetaches == 1
\* heights at which hard fork 5 activates: below and above the journal horizon
StartLow == 29
StartHigh == 57

(***************************************************************************)
(* Program constants.                                                      *)
(***************************************************************************)
ROLLBACK_EVENT_EXPIRATION_BLOCKS == 30
\* std::numeric_limits<uint32_t>::max(), scaled to the checker's integers
UINT32_MAX == 2147483647
\* std::numeric_limits<uint64_t>::max() as a cursor height, scaled
UINT64_MAX == 2147483646
\* modulus of the scaled 64-bit unsigned arithmetic
U64 == 65536
\* modulus of the scaled size_t arithmetic
SIZE_T == 65536

\* service_node_rules.h / cryptonote_config.h
COIN == 1
STAKING_PORTIONS == 4
STAKING_REQUIREMENT_UNITS == 4
MAX_NUMBER_OF_CONTRIBUTORS == 2
MAX_NUMBER_OF_CONTRIBUTORS_V2 == 2
MAX_NUMBER_OF_CONTRIBUTORS_V3 == 2
MIN_OPERATOR_V12 == 1
MAX_OPERATOR_V12 == 3
MIN_POOL_STAKERS_V12 == 1
MAX_POOL_STAKERS_V12 == 4
STAKING_REQUIREMENT_LOCK_BLOCKS == 1
STAKING_REQUIREMENT_LOCK_BLOCKS_EXCESS == 1
CRYPTONOTE_MAX_BLOCK_NUMBER == 500000
SERVICE_NODE_VERSION == 5
QUORUM_SIZE == 1
MIN_NODES_TO_TEST == 1
NTH_OF_THE_NETWORK_TO_TEST == 2
DEREGISTER_LIFETIME_BY_HEIGHT == 1
DEREGISTER_LIFETIME_BY_HEIGHT_V2 == 1
UNASSIGNED_SWARM_ID == 0

(***************************************************************************)
(* Identifiers.                                                            *)
(***************************************************************************)
Keys == {"k1", "k2"}
\* the keys of a registry that is taken over fully populated
QuorumKeys == <<"k1", "k2", "k3", "k4", "k5">>
null_pkey == "null"
Addrs == {"a1", "a2", "a3"}
null_address == "anull"
no_address == "none"

\* memcmp order of public keys (service_node_list.cpp:134-137)
KeyRank(k) ==
  IF k = "k1" THEN 1 ELSE IF k = "k2" THEN 2 ELSE IF k = "k3" THEN 3
  ELSE IF k = "k4" THEN 4 ELSE IF k = "k5" THEN 5 ELSE 0

Min(a, b) == IF a < b THEN a ELSE b
Max(a, b) == IF a > b THEN a ELSE b

\* uint64_t subtraction and addition
Sub64(a, b) == (a - b + U64) % U64
Add64(a, b) == (a + b) % U64

\* mul128 followed by div128_64, low word of the quotient
mul_div(a, b, c) == ((a * b) \div c) % U64

RECURSIVE SumSeq(_, _)
SumSeq(s, f) == IF s = <<>> THEN 0 ELSE s[1][f] + SumSeq(Tail(s), f)

RECURSIVE SeqToSet(_)
SeqToSet(s) == IF s = <<>> THEN {} ELSE {s[1]} \cup SeqToSet(Tail(s))

\* all orders in which a set can be enumerated
RECURSIVE Perms(_)
Perms(S) == IF S = {} THEN {<<>>}
            ELSE UNION {{<<x>> \o p : p \in Perms(S \ {x})} : x \in S}

\* the keys of S in memcmp order
RECURSIVE SortKeys(_)
SortKeys(S) == IF S = {} THEN <<>>
               ELSE LET m == CHOOSE x \in S : \A y \in S : KeyRank(x) <= KeyRank(y)
                    IN <<m>> \o SortKeys(S \ {m})

(***************************************************************************)
(* service_node_info                                                       *)
(***************************************************************************)
NoInfo == [version |-> 0, registration_height |-> 0,
           last_reward_block_height |-> 0, last_reward_transaction_index |-> 0,
           contributors |-> <<>>, total_contributed |-> 0, total_reserved |-> 0,
           staking_requirement |-> 0, portions_for_operator |-> 0,
           swarm_id |-> 0, operator_address |-> no_address]

is_valid(info) == info.total_contributed >= info.total_reserved
is_fully_funded(info) == info.total_contributed >= info.staking_requirement

\* m_blockchain.get_hard_fork_version(height): version 4 below the fork height
HardFork(cfg, height) == IF height < cfg.fork THEN 4 ELSE cfg.hf

get_staking_requirement(height) == STAKING_REQUIREMENT_UNITS * COIN

get_staking_requirement_lock_blocks == STAKING_REQUIREMENT_LOCK_BLOCKS

portions_to_amount(portions, staking_requirement) ==
  mul_div(staking_requirement, portions, STAKING_PORTIONS)

get_min_node_contribution(hf, staking_requirement, total_reserved) ==
  Min(Sub64(staking_requirement, total_reserved),
      staking_requirement \div MAX_NUMBER_OF_CONTRIBUTORS)

\* the self-initialised local min_portions is an indeterminate value mp
RECURSIVE PortionsOk(_, _, _)
PortionsOk(portions, portions_left, mp) ==
  IF portions = <<>> THEN TRUE
  ELSE LET min_portions == Min(portions_left, mp)
           p == portions[1]
       IN IF p < min_portions \/ p > portions_left THEN FALSE
          ELSE PortionsOk(Tail(portions), portions_left - p, mp)

check_service_node_portions(portions, mp) == PortionsOk(portions, STAKING_PORTIONS, mp)

(***************************************************************************)
(* Transactions and blocks, reduced to the fields the registry reads.      *)
(***************************************************************************)
NoTx == [type |-> "standard", has_reg |-> FALSE, sn_key |-> null_pkey,
         addresses |-> <<>>, portions |-> <<>>, portions_for_operator |-> 0,
         expiration_timestamp |-> 0, sig_ok |-> FALSE, contributor |-> no_address,
         amount |-> 0, unlock_time |-> 0, burned_amount |-> 0, total_fee |-> 0,
         miner_fee |-> 0, dereg_height |-> 0, dereg_index |-> 0, mp |-> 0]

BlockTimestamp == 100

\* contribution_tx_output_has_correct_unlock_time
contribution_tx_output_has_correct_unlock_time(tx, block_height) ==
  /\ tx.unlock_time < CRYPTONOTE_MAX_BLOCK_NUMBER
  /\ tx.unlock_time >= block_height + get_staking_requirement_lock_blocks

\* get_contribution: [ok, address, transferred]
get_contribution(tx, block_height) ==
  IF tx.contributor = no_address
  THEN [ok |-> FALSE, address |-> no_address, transferred |-> 0]
  ELSE [ok |-> TRUE, address |-> tx.contributor,
        transferred |-> IF contribution_tx_output_has_correct_unlock_time(tx, block_height)
                        THEN tx.amount ELSE 0]

\* std::find over the first n addresses
InPrefix(addresses, n, a) == \E j \in 1..n : addresses[j] = a

\* the contributors built by the loop of is_registration_tx; "dup" when a
\* duplicate address makes the loop return false
RECURSIVE RegContributors(_, _, _, _, _)
RegContributors(addresses, portions, basis, i, acc) ==
  IF i > Len(addresses) THEN [dup |-> FALSE, contributors |-> acc]
  ELSE IF InPrefix(addresses, i - 1, addresses[i])
       THEN [dup |-> TRUE, contributors |-> acc]
       ELSE RegContributors(addresses, portions, basis, i + 1,
              Append(acc, [amount |-> 0,
                           reserved |-> mul_div(basis, portions[i], STAKING_PORTIONS),
                           address |-> addresses[i]]))

RegFail == [ok |-> FALSE, key |-> null_pkey, info |-> NoInfo]

is_registration_tx(cfg, tx, block_timestamp, block_height, index) ==
  LET hf_version == HardFork(cfg, block_height)
      staking_requirement == get_staking_requirement(block_height)
      max_contribs == MAX_NUMBER_OF_CONTRIBUTORS
      c == get_contribution(tx, block_height)
      is_this_a_new_address ==
        IF InPrefix(tx.addresses, Len(tx.addresses), c.address) THEN 0 ELSE 1
      burn_fee == Sub64(tx.total_fee, tx.miner_fee)
      basis == IF hf_version < 12 THEN staking_requirement
               ELSE IF hf_version < 17 THEN MAX_OPERATOR_V12 * COIN
               ELSE staking_requirement
      built == RegContributors(tx.addresses, tx.portions, basis, 1, <<>>)
  IN
  IF ~tx.has_reg \/ tx.sn_key = null_pkey THEN RegFail
  ELSE IF Len(tx.portions) # Len(tx.addresses) \/ tx.portions = <<>> THEN RegFail
  ELSE IF ~check_service_node_portions(tx.portions, tx.mp) THEN RegFail
  ELSE IF tx.portions_for_operator > STAKING_PORTIONS THEN RegFail
  ELSE IF ~tx.sig_ok THEN RegFail
  ELSE IF tx.expiration_timestamp < block_timestamp THEN RegFail
  ELSE IF ~c.ok THEN RegFail
  ELSE IF Len(tx.addresses) + is_this_a_new_address > max_contribs THEN RegFail
  ELSE IF hf_version < 12 /\ c.transferred < staking_requirement \div max_contribs THEN RegFail
  ELSE IF hf_version >= 12 /\ tx.burned_amount < burn_fee THEN RegFail
  ELSE IF hf_version >= 12 /\ c.transferred < MIN_OPERATOR_V12 * COIN THEN RegFail
  ELSE IF hf_version >= 12 /\ hf_version < 17 /\ c.transferred > MAX_OPERATOR_V12 * COIN THEN RegFail
  ELSE IF built.dup THEN RegFail
  ELSE [ok |-> TRUE, key |-> tx.sn_key,
        info |-> [version |-> IF hf_version >= 5 THEN 1 ELSE 0,
                  registration_height |-> block_height,
                  last_reward_block_height |-> block_height,
                  last_reward_transaction_index |-> index,
                  contributors |-> built.contributors,
                  total_contributed |-> 0,
                  total_reserved |-> SumSeq(built.contributors, "reserved") % U64,
                  staking_requirement |-> staking_requirement,
                  portions_for_operator |-> tx.portions_for_operator,
                  swarm_id |-> UNASSIGNED_SWARM_ID,
                  operator_address |-> tx.addresses[1]]]

(***************************************************************************)
(* Rollback events and the registry state                                  *)
(*   st = [infos, events, height, quorums]                                 *)
(***************************************************************************)
rollback_change(h, key, info) == [type |-> "change", h |-> h, key |-> key, info |-> info]
rollback_new(h, key) == [type |-> "new", h |-> h, key |-> key, info |-> NoInfo]
prevent_rollback(h) == [type |-> "prevent", h |-> h, key |-> null_pkey, info |-> NoInfo]

\* std::unordered_map operations
Has(infos, k) == k \in DOMAIN infos
Put(infos, k, info) == [x \in (DOMAIN infos) \cup {k} |-> IF x = k THEN info ELSE infos[x]]
Erase(infos, k) == [x \in (DOMAIN infos) \ {k} |-> infos[x]]
EmptyMap == [x \in {} |-> NoInfo]

\* the result of a handler step: the new state and the handler's return value
Ret(st, r) == [st |-> st, r |-> r]

\* process_registration_tx once is_registration_tx has parsed the transaction
\* into reg = [ok, key, info]
\* faulty variant: a registered key is replaced at any height
insert_registration_any_time(st, reg, hard_fork_version, block_height) ==
  LET present == Has(st.infos, reg.key)
      old_info == st.infos[reg.key]
      info == IF present
              THEN [reg.info EXCEPT
                      !.last_reward_block_height = old_info.last_reward_block_height,
                      !.last_reward_transaction_index = old_info.last_reward_transaction_index]
              ELSE reg.info
  IN
  IF ~reg.ok THEN Ret(st, FALSE)
  ELSE IF present /\ hard_fork_version < 5 THEN Ret(st, FALSE)
  ELSE Ret([st EXCEPT !.events = Append(@, rollback_new(block_height, reg.key)),
                      !.infos = Put(@, reg.key, info)], TRUE)

\* faulty variant: the journal entry is pushed before the key is looked up
insert_registration_journal_first(st, reg, hard_fork_version, block_height) ==
  LET present == Has(st.infos, reg.key)
      old_info == st.infos[reg.key]
      expiry_height == old_info.registration_height + get_staking_requirement_lock_blocks
      pushed == [st EXCEPT !.events = Append(@, rollback_new(block_height, reg.key))]
      info == IF present
              THEN [reg.info EXCEPT
                      !.last_reward_block_height = old_info.last_reward_block_height,
                      !.last_reward_transaction_index = old_info.last_reward_transaction_index]
              ELSE reg.info
  IN
  IF ~reg.ok THEN Ret(st, FALSE)
  ELSE IF present /\ hard_fork_version < 5 THEN Ret(pushed, FALSE)
  ELSE IF present /\ block_height < expiry_height THEN Ret(pushed, FALSE)
  ELSE Ret([pushed EXCEPT !.infos = Put(@, reg.key, info)], TRUE)

insert_registration(st, reg, hard_fork_version, block_height) ==
  LET present == Has(st.infos, reg.key)
      old_info == st.infos[reg.key]
      expiry_height == old_info.registration_height + get_staking_requirement_lock_blocks
      info == IF present
              THEN [reg.info EXCEPT
                      !.last_reward_block_height = old_info.last_reward_block_height,
                      !.last_reward_transaction_index = old_info.last_reward_transaction_index]
              ELSE reg.info
  IN
  IF ~reg.ok THEN Ret(st, FALSE)
  ELSE IF present /\ hard_fork_version < 5 THEN Ret(st, FALSE)
  ELSE IF present /\ block_height < expiry_height THEN Ret(st, FALSE)
  ELSE Ret([st EXCEPT !.events = Append(@, rollback_new(block_height, reg.key)),
                      !.infos = Put(@, reg.key, info)], TRUE)

process_registration_tx(cfg, st, tx, block_timestamp, block_height, index) ==
  insert_registration(st, is_registration_tx(cfg, tx, block_timestamp, block_height, index),
                      HardFork(cfg, block_height), block_height)

\* index of the contributor with the given address, 0 when absent (std::find_if)
ContribIndex(contributors, address) ==
  IF \E j \in 1..Len(contributors) : contributors[j].address = address
  THEN CHOOSE j \in 1..Len(contributors) :
         /\ contributors[j].address = address
         /\ \A l \in 1..(j - 1) : contributors[l].address # address
  ELSE 0

\* faulty variant: the contribution is not clamped to the open reservation
clamp_transferred_unclamped(staking_req, total_reserved, contributor, transferred) ==
  transferred

\* std::min(max_amount - contributor.amount, transferred)
clamp_transferred(staking_req, total_reserved, contributor, transferred) ==
  LET can_increase_reserved_by == Sub64(staking_req, total_reserved)
      max_amount == Add64(contributor.reserved, can_increase_reserved_by)
  IN Min(Sub64(max_amount, contributor.amount), transferred)

\* faulty variant: total_reserved does not follow a contributor's reservation
grow_total_reserved_never(total_reserved, amount, reserved) == total_reserved

\* info.total_reserved += contributor.amount - contributor.reserved, when the
\* contributor's amount exceeds its reservation
grow_total_reserved(total_reserved, amount, reserved) ==
  IF amount > reserved THEN Add64(total_reserved, Sub64(amount, reserved))
  ELSE total_reserved

\* the contributors after the find_if / emplace_back of process_contribution_tx:
\* a contributor that is not found (found = 0) is appended with nothing staked
with_contributor(contributors, found, address) ==
  IF found = 0 THEN Append(contributors, [amount |-> 0, reserved |-> 0, address |-> address])
  ELSE contributors

\* the entry after contributors[ci] has staked `transferred`, already clamped
add_contribution(info, contributors, ci, transferred, block_height, index) ==
  LET contributor == contributors[ci]
      amount == Add64(contributor.amount, transferred)
  IN [info EXCEPT
        !.contributors = [contributors EXCEPT
                            ![ci] = [@ EXCEPT !.amount = amount,
                                              !.reserved = IF amount > @ THEN amount ELSE @]],
        !.total_contributed = Add64(@, transferred),
        !.total_reserved = grow_total_reserved(@, amount, contributor.reserved),
        !.last_reward_block_height = block_height,
        !.last_reward_transaction_index = index]

\* the staking requirement a contribution is clamped against
contribution_staking_req(info, hf_version) ==
  IF hf_version < 12 THEN info.staking_requirement
  ELSE IF hf_version < 17 THEN MAX_POOL_STAKERS_V12 * COIN
  ELSE info.staking_requirement

\* the update of process_contribution_tx for the contributor at index ci
contribute(info, contributors, ci, hf_version, transferred, block_height, index) ==
  add_contribution(info, contributors, ci,
                   clamp_transferred(contribution_staking_req(info, hf_version),
                                     info.total_reserved, contributors[ci], transferred),
                   block_height, index)

\* faulty variant: a new contributor is taken on whatever the number of
\* contributors the node has
accept_contribution_unlimited(st, tx, info, hf_version, c, found, block_height, index) ==
  LET pubkey == tx.sn_key
      burn_fee == Sub64(tx.total_fee, tx.miner_fee)
      b_fee == IF hf_version < 16 THEN c.transferred \div 1000 ELSE 1
      new_info == contribute(info, with_contributor(info.contributors, found, c.address),
                             IF found = 0 THEN Len(info.contributors) + 1 ELSE found,
                             hf_version, c.transferred, block_height, index)
  IN
  IF ~c.ok THEN st
  ELSE IF is_fully_funded(info) THEN st
  ELSE IF hf_version >= 12 /\ burn_fee < b_fee THEN st
  ELSE IF hf_version >= 12 /\ tx.burned_amount < Sub64(tx.total_fee, tx.miner_fee) THEN st
  ELSE IF hf_version >= 12 /\ c.transferred < MIN_POOL_STAKERS_V12 * COIN THEN st
  ELSE IF hf_version >= 12 /\ hf_version < 17 /\ c.transferred > MAX_POOL_STAKERS_V12 * COIN THEN st
  ELSE IF found = 0 /\ c.transferred < get_min_node_contribution(hf_version,
                                          info.staking_requirement, info.total_reserved)
       THEN st
  ELSE [st EXCEPT !.events = Append(@, rollback_change(block_height, pubkey, info)),
                  !.infos = Put(@, pubkey, new_info)]

\* process_contribution_tx once get_contribution has parsed the transaction
\* into c = [ok, address, transferred] and find_if has given found
accept_contribution(st, tx, info, hf_version, c, found, block_height, index) ==
  LET pubkey == tx.sn_key
      burn_fee == Sub64(tx.total_fee, tx.miner_fee)
      b_fee == IF hf_version < 16 THEN c.transferred \div 1000 ELSE 1
      max_contribs == IF hf_version > 11 THEN MAX_NUMBER_OF_CONTRIBUTORS_V3
                      ELSE IF hf_version > 9 THEN MAX_NUMBER_OF_CONTRIBUTORS_V2
                      ELSE MAX_NUMBER_OF_CONTRIBUTORS
      new_info == contribute(info, with_contributor(info.contributors, found, c.address),
                             IF found = 0 THEN Len(info.contributors) + 1 ELSE found,
                             hf_version, c.transferred, block_height, index)
  IN
  IF ~c.ok THEN st
  ELSE IF is_fully_funded(info) THEN st
  ELSE IF hf_version >= 12 /\ burn_fee < b_fee THEN st
  ELSE IF hf_version >= 12 /\ tx.burned_amount < Sub64(tx.total_fee, tx.miner_fee) THEN st
  ELSE IF hf_version >= 12 /\ c.transferred < MIN_POOL_STAKERS_V12 * COIN THEN st
  ELSE IF hf_version >= 12 /\ hf_version < 17 /\ c.transferred > MAX_POOL_STAKERS_V12 * COIN THEN st
  ELSE IF found = 0 /\ (Len(info.contributors) >= max_contribs
                        \/ c.transferred < get_min_node_contribution(hf_version,
                                              info.staking_requirement, info.total_reserved))
       THEN st
  ELSE [st EXCEPT !.events = Append(@, rollback_change(block_height, pubkey, info)),
                  !.infos = Put(@, pubkey, new_info)]

\* process_contribution_tx for an entry info that the map holds
contribution_for(st, tx, info, hf_version, block_height, index) ==
  LET block_for_unlock == IF hf_version >= 12 THEN info.registration_height ELSE block_height
      c == get_contribution(tx, block_for_unlock)
  IN accept_contribution(st, tx, info, hf_version, c,
                         ContribIndex(info.contributors, c.address), block_height, index)

process_contribution_tx(cfg, st, tx, block_height, index) ==
  IF tx.sn_key = null_pkey \/ ~Has(st.infos, tx.sn_key) THEN st
  ELSE contribution_for(st, tx, st.infos[tx.sn_key], HardFork(cfg, block_height),
                        block_height, index)

\* get_quorum_state: an empty state when none is cached for the height
EmptyQuorum == [quorum_nodes |-> <<>>, nodes_to_test |-> <<>>]
get_quorum_state(st, height) ==
  IF height \in DOMAIN st.quorums THEN st.quorums[height] ELSE EmptyQuorum

\* faulty variant: the key is not looked up in the registry before the
\* event is pushed
process_deregistration_tx_without_lookup(cfg, st, tx, block_height) ==
  LET state == get_quorum_state(st, tx.dereg_height)
      key == state.nodes_to_test[tx.dereg_index + 1]
  IN
  IF tx.type # "deregister" THEN Ret(st, FALSE)
  ELSE IF tx.dereg_index >= Len(state.nodes_to_test) THEN Ret(st, FALSE)
  ELSE Ret([st EXCEPT !.events = Append(@, rollback_change(block_height, key,
                                             IF Has(st.infos, key) THEN st.infos[key]
                                             ELSE NoInfo)),
                      !.infos = Erase(@, key)], TRUE)

process_deregistration_tx(cfg, st, tx, block_height) ==
  LET state == get_quorum_state(st, tx.dereg_height)
      key == state.nodes_to_test[tx.dereg_index + 1]
  IN
  IF tx.type # "deregister" THEN Ret(st, FALSE)
  ELSE IF tx.dereg_index >= Len(state.nodes_to_test) THEN Ret(st, FALSE)
  ELSE IF ~Has(st.infos, key) THEN Ret(st, FALSE)
  ELSE Ret([st EXCEPT !.events = Append(@, rollback_change(block_height, key, st.infos[key])),
                      !.infos = Erase(@, key)], TRUE)

\* calc_swarm_changes (service_node_swarm.cpp): the nodes waiting in the
\* unassigned queue are moved to a swarm picked from the seed
NumSwarms == 2
calc_swarm_changes(infos, seed) ==
  [k \in DOMAIN infos |->
     IF infos[k].swarm_id = UNASSIGNED_SWARM_ID THEN 1 + (seed % NumSwarms)
     ELSE infos[k].swarm_id]

RECURSIVE ApplySwarms(_, _, _, _)
ApplySwarms(st, keys, target, height) ==
  IF keys = <<>> THEN st
  ELSE LET snode == keys[1]
           sn_info == st.infos[snode]
       IN IF sn_info.swarm_id = target[snode]
          THEN ApplySwarms(st, Tail(keys), target, height)
          ELSE ApplySwarms(
                 [st EXCEPT !.events = Append(@, rollback_change(height, snode, sn_info)),
                            !.infos = Put(@, snode, [sn_info EXCEPT !.swarm_id = target[snode]])],
                 Tail(keys), target, height)

update_swarms(st, height, seed) ==
  ApplySwarms(st, SortKeys(DOMAIN st.infos), calc_swarm_changes(st.infos, seed), height)

(***************************************************************************)
(* Quorum selection                                                        *)
(***************************************************************************)
\* std::sort with the memcmp comparator
RECURSIVE InsertSorted(_, _)
InsertSorted(s, k) ==
  IF s = <<>> THEN <<k>>
  ELSE IF KeyRank(k) < KeyRank(s[1]) THEN <<k>> \o s
  ELSE <<s[1]>> \o InsertSorted(Tail(s), k)

RECURSIVE SortByKey(_)
SortByKey(s) == IF s = <<>> THEN <<>> ELSE InsertSorted(SortByKey(Tail(s)), s[1])

\* the entries get_service_nodes_pubkeys pushes, in the order the map is walked
RECURSIVE PushEligible(_, _, _)
PushEligible(infos, order, hard_fork_version) ==
  IF order = <<>> THEN <<>>
  ELSE IF \/ (is_valid(infos[order[1]]) /\ hard_fork_version > 9)
          \/ is_fully_funded(infos[order[1]])
       THEN <<order[1]>> \o PushEligible(infos, Tail(order), hard_fork_version)
       ELSE PushEligible(infos, Tail(order), hard_fork_version)

\* faulty variant: the result is left in the order the map was walked
get_service_nodes_pubkeys_unsorted(cfg, st, order) ==
  PushEligible(st.infos, order, HardFork(cfg, st.height))

\* get_service_nodes_pubkeys on a map that is walked in the order `order`
get_service_nodes_pubkeys_in(cfg, st, order) ==
  SortByKey(PushEligible(st.infos, order, HardFork(cfg, st.height)))

\* the map of this node is walked in one fixed order
get_service_nodes_pubkeys(cfg, st) ==
  get_service_nodes_pubkeys_in(cfg, st, SortKeys(DOMAIN st.infos))

RECURSIVE Factorial(_)
Factorial(n) == IF n <= 1 THEN 1 ELSE n * Factorial(n - 1)

\* the i-th draw of the generator seeded with seed, uniform over 0..n-1
uniform_distribution_portable(seed, i, n) == (seed \div Factorial(i)) % n

Swap(a, i, j) == [a EXCEPT ![i] = a[j], ![j] = a[i]]

\* xeq_shuffle; positions are 0-based in the code, 1-based here
RECURSIVE ShuffleFrom(_, _, _)
ShuffleFrom(a, seed, i) ==
  IF i >= Len(a) THEN a
  ELSE LET j == uniform_distribution_portable(seed, i, i + 1)
       IN ShuffleFrom(IF i # j THEN Swap(a, i + 1, j + 1) ELSE a, seed, i + 1)

xeq_shuffle(a, seed) == IF Len(a) <= 1 THEN a ELSE ShuffleFrom(a, seed, 1)

\* faulty variant: the nodes to test are read from the front of the shuffle
new_quorum_state_from_front(full_node_list, pub_keys_indexes) ==
  LET n == Len(full_node_list)
      quorum_size == Min(n, QUORUM_SIZE)
      num_remaining_nodes == n - quorum_size
      num_nodes_to_test == Max(num_remaining_nodes \div NTH_OF_THE_NETWORK_TO_TEST,
                               Min(MIN_NODES_TO_TEST, num_remaining_nodes))
  IN [quorum_nodes |-> [i \in 1..quorum_size |-> full_node_list[pub_keys_indexes[i]]],
      nodes_to_test |-> [i \in 1..num_nodes_to_test |->
                           full_node_list[pub_keys_indexes[i]]]]

\* the quorum_state built from the sorted list and the shuffled indexes
new_quorum_state(full_node_list, pub_keys_indexes) ==
  LET n == Len(full_node_list)
      quorum_size == Min(n, QUORUM_SIZE)
      num_remaining_nodes == n - quorum_size
      num_nodes_to_test == Max(num_remaining_nodes \div NTH_OF_THE_NETWORK_TO_TEST,
                               Min(MIN_NODES_TO_TEST, num_remaining_nodes))
  IN [quorum_nodes |-> [i \in 1..quorum_size |-> full_node_list[pub_keys_indexes[i]]],
      nodes_to_test |-> [i \in 1..num_nodes_to_test |->
                           full_node_list[pub_keys_indexes[quorum_size + i]]]]

\* the quorum_state of a sorted key list under the seed of the block hash
quorum_state_of(full_node_list, seed) ==
  new_quorum_state(full_node_list,
                   xeq_shuffle([i \in 1..Len(full_node_list) |-> i], seed))

store_quorum_state_from_rewards_list(cfg, st, height, seed) ==
  [st EXCEPT !.quorums = [q \in (DOMAIN st.quorums) \cup {height} |->
                            IF q = height
                            THEN quorum_state_of(get_service_nodes_pubkeys(cfg, st), seed)
                            ELSE st.quorums[q]]]

(***************************************************************************)
(* process_block                                                           *)
(***************************************************************************)
\* pop_front while the front event is older than cull_height
RECURSIVE Cull(_, _)
Cull(events, cull_height) ==
  IF events # <<>> /\ events[1].h < cull_height THEN Cull(Tail(events), cull_height)
  ELSE events

CullHeight(block_height) ==
  IF block_height < ROLLBACK_EVENT_EXPIRATION_BLOCKS THEN block_height
  ELSE block_height - ROLLBACK_EVENT_EXPIRATION_BLOCKS

\* faulty variant: a node expires one block early
get_expired_nodes_early(cfg, st, block_height) ==
  LET lock_blocks == get_staking_requirement_lock_blocks + STAKING_REQUIREMENT_LOCK_BLOCKS_EXCESS
  IN IF block_height < lock_blocks THEN <<>>
     ELSE SortKeys({k \in DOMAIN st.infos :
                      block_height >= st.infos[k].registration_height + lock_blocks})

get_expired_nodes(cfg, st, block_height) ==
  LET lock_blocks == get_staking_requirement_lock_blocks + STAKING_REQUIREMENT_LOCK_BLOCKS_EXCESS
  IN IF block_height < lock_blocks THEN <<>>
     ELSE SortKeys({k \in DOMAIN st.infos :
                      block_height > st.infos[k].registration_height + lock_blocks})

\* the expiry loop: [st, expired, count] with expired = expired_count
RECURSIVE Expire(_, _, _, _)
Expire(st, keys, block_height, count) ==
  IF keys = <<>> THEN [st |-> st, expired |-> count, count |-> 0]
  ELSE LET pubkey == keys[1]
       IN IF Has(st.infos, pubkey)
          THEN Expire([st EXCEPT
                         !.events = Append(@, rollback_change(block_height, pubkey, st.infos[pubkey])),
                         !.infos = Erase(@, pubkey)],
                      Tail(keys), block_height, count + 1)
          ELSE Expire(st, Tail(keys), block_height, count)

\* faulty variant: the change is journalled, the cursor of the winner stays
WinnerBump_without_cursor(st, winner_pubkey, block_height) ==
  IF Has(st.infos, winner_pubkey)
  THEN [st EXCEPT
          !.events = Append(@, rollback_change(block_height, winner_pubkey, st.infos[winner_pubkey]))]
  ELSE st

\* faulty variant: the winner takes the cursor of the block's first transaction
WinnerBump_first_index(st, winner_pubkey, block_height) ==
  IF Has(st.infos, winner_pubkey)
  THEN [st EXCEPT
          !.events = Append(@, rollback_change(block_height, winner_pubkey, st.infos[winner_pubkey])),
          !.infos = Put(@, winner_pubkey,
                        [st.infos[winner_pubkey] EXCEPT
                           !.last_reward_block_height = block_height,
                           !.last_reward_transaction_index = 0])]
  ELSE st

WinnerBump(st, winner_pubkey, block_height) ==
  IF Has(st.infos, winner_pubkey)
  THEN [st EXCEPT
          !.events = Append(@, rollback_change(block_height, winner_pubkey, st.infos[winner_pubkey])),
          !.infos = Put(@, winner_pubkey,
                        [st.infos[winner_pubkey] EXCEPT
                           !.last_reward_block_height = block_height,
                           !.last_reward_transaction_index = UINT32_MAX])]
  ELSE st

\* a handler's result [st, r] counted into the loop's [st, expired, count]
Counted(acc, res) == [acc EXCEPT !.st = res.st, !.count = @ + (IF res.r THEN 1 ELSE 0)]

\* a staking transaction: the contribution is processed on the registry the
\* registration handler leaves, reg = [st, r]
process_stake_tx(cfg, acc, reg, tx, block_height, index) ==
  Counted(acc, Ret(process_contribution_tx(cfg, reg.st, tx, block_height, index), reg.r))

\* the body of the transaction loop
process_tx(cfg, acc, tx, block, index) ==
  LET hard_fork_version == HardFork(cfg, block.height)
  IN IF \/ (hard_fork_version >= 18 /\ tx.type = "stake")
        \/ (hard_fork_version <= 17 /\ tx.type = "standard")
     THEN process_stake_tx(cfg, acc,
            process_registration_tx(cfg, acc.st, tx, block.timestamp, block.height, index),
            tx, block.height, index)
     ELSE IF hard_fork_version >= 18 /\ tx.type = "swap" THEN acc
     ELSE IF tx.type = "deregister"
     THEN Counted(acc, process_deregistration_tx(cfg, acc.st, tx, block.height))
     ELSE acc

\* the transaction loop over acc = [st, expired, count], count = registrations
\* + deregistrations
RECURSIVE ProcessTxs(_, _, _, _, _)
ProcessTxs(cfg, acc, txs, block, index) ==
  IF index >= Len(txs) THEN acc
  ELSE ProcessTxs(cfg, process_tx(cfg, acc, txs[index + 1], block, index), txs, block,
                  index + 1)

\* faulty variant: the eviction stops one height early
EvictQuorums_late(st, cache_state_from_height) ==
  [st EXCEPT !.quorums = [q \in {x \in DOMAIN st.quorums : x >= cache_state_from_height - 1} |->
                            st.quorums[q]]]

EvictQuorums(st, cache_state_from_height) ==
  [st EXCEPT !.quorums = [q \in {x \in DOMAIN st.quorums : x >= cache_state_from_height} |->
                            st.quorums[q]]]

\* the head of process_block: sentinel, cull of the journal front, cursor
cull_events(st, cull_height) ==
  [st EXCEPT !.height = @ + 1,
             !.events = <<prevent_rollback(cull_height)>> \o Cull(@, cull_height)]

expire_nodes(cfg, st, block_height) ==
  Expire(st, get_expired_nodes(cfg, st, block_height), block_height, 0)

winner_bump(acc, block) == [acc EXCEPT !.st = WinnerBump(@, block.winner, block.height)]

swarms_updated(acc, block) ==
  IF acc.count > 0 \/ acc.expired > 0 THEN update_swarms(acc.st, block.height, block.seed)
  ELSE acc.st

process_block(cfg, st, block) ==
  LET block_height == block.height
      hard_fork_version == HardFork(cfg, block_height)
      s1 == cull_events(st, CullHeight(block_height))
      ex == expire_nodes(cfg, s1, block_height)
      tx == ProcessTxs(cfg, winner_bump(ex, block), block.txs, block, 0)
      s5 == swarms_updated(tx, block)
      deregister_lifetime == IF hard_fork_version >= 8 THEN DEREGISTER_LIFETIME_BY_HEIGHT_V2
                             ELSE DEREGISTER_LIFETIME_BY_HEIGHT
      QUORUM_LIFETIME == 6 * deregister_lifetime
      cache_state_from_height == IF block_height < QUORUM_LIFETIME THEN 0
                                 ELSE block_height - QUORUM_LIFETIME
      s6 == store_quorum_state_from_rewards_list(cfg, s5, block_height, block.seed)
  IN IF hard_fork_version < 5 THEN st
     ELSE EvictQuorums(s6, cache_state_from_height)

(***************************************************************************)
(* clear, init, blockchain_detached                                        *)
(***************************************************************************)
EmptyQuorums == [q \in {} |-> EmptyQuorum]

\* clear(): the cursor goes back to the height at which hard fork 5 activates
clear(cfg) == [infos |-> EmptyMap, events |-> <<>>, height |-> cfg.fork,
               quorums |-> EmptyQuorums]

\* chain[i] is the block of height ChainBase(cfg) + i - 1
ChainBase(cfg) == cfg.fork - PreFork
BlockAt(cfg, chain, height) == chain[height - ChainBase(cfg) + 1]

\* the scanning loop of init(): process the blocks m_height .. current_height - 1
RECURSIVE Rescan(_, _, _, _)
Rescan(cfg, st, chain, current_height) ==
  IF st.height < current_height
  THEN Rescan(cfg, process_block(cfg, st, BlockAt(cfg, chain, st.height)), chain, current_height)
  ELSE st

\* the fields serialization writes for a service_node_info, in declared order:
\* swarm_id is written from version_1_swarms on only
info_fields(info) ==
  <<info.version, info.registration_height, info.last_reward_block_height,
    info.last_reward_transaction_index,
    [i \in 1..Len(info.contributors) |->
       <<info.contributors[i].amount, info.contributors[i].reserved,
         info.contributors[i].address>>],
    info.total_contributed, info.total_reserved, info.staking_requirement,
    info.portions_for_operator>>
  \o (IF info.version >= 1 THEN <<info.swarm_id>> ELSE <<>>)
  \o <<info.operator_address>>

\* the service_node_info the same field list reads back; a swarm_id that was
\* not written keeps the value of the default-constructed object
info_parsed(f) ==
  [version |-> f[1], registration_height |-> f[2], last_reward_block_height |-> f[3],
   last_reward_transaction_index |-> f[4],
   contributors |-> [i \in 1..Len(f[5]) |->
                       [amount |-> f[5][i][1], reserved |-> f[5][i][2],
                        address |-> f[5][i][3]]],
   total_contributed |-> f[6], total_reserved |-> f[7], staking_requirement |-> f[8],
   portions_for_operator |-> f[9],
   swarm_id |-> IF f[1] >= 1 THEN f[10] ELSE NoInfo.swarm_id,
   operator_address |-> f[Len(f)]]

\* the heights of S from the lowest, the iteration order of a std::map
RECURSIVE Ascending(_)
Ascending(S) == IF S = {} THEN <<>>
                ELSE LET m == CHOOSE x \in S : \A y \in S : x <= y
                     IN <<m>> \o Ascending(S \ {m})

\* the variant store() pushes for a journal event: each kind with its own fields
rollback_event_variant(e) ==
  IF e.type = "change"
  THEN [tag |-> "rollback_change", m_block_height |-> e.h, m_key |-> e.key,
        m_info |-> info_fields(e.info)]
  ELSE IF e.type = "new"
  THEN [tag |-> "rollback_new", m_block_height |-> e.h, m_key |-> e.key]
  ELSE [tag |-> "prevent_rollback", m_block_height |-> e.h]

\* data_members_for_serialization as store() fills it from the registry
data_to_store(st) ==
  LET heights == Ascending(DOMAIN st.quorums)
      keys == SortKeys(DOMAIN st.infos)
  IN [quorum_states |-> [i \in 1..Len(heights) |->
                           [height |-> heights[i],
                            state |-> <<st.quorums[heights[i]].quorum_nodes,
                                        st.quorums[heights[i]].nodes_to_test>>]],
      infos |-> [i \in 1..Len(keys) |->
                   [key |-> keys[i], info |-> info_fields(st.infos[keys[i]])]],
      events |-> [i \in 1..Len(st.events) |-> rollback_event_variant(st.events[i])],
      height |-> st.height]

\* the journal event load() rebuilds from a variant
event_loaded(v) ==
  IF v.tag = "rollback_change"
  THEN rollback_change(v.m_block_height, v.m_key, info_parsed(v.m_info))
  ELSE IF v.tag = "rollback_new" THEN rollback_new(v.m_block_height, v.m_key)
  ELSE prevent_rollback(v.m_block_height)

\* faulty variant: the journal is not read back
load_without_events(cfg, db) ==
  IF db = <<>> THEN [ok |-> FALSE, st |-> clear(cfg)]
  ELSE LET data_in == db[1]
           q == data_in.quorum_states
           n == data_in.infos
       IN [ok |-> TRUE,
           st |-> [height |-> data_in.height,
                   quorums |-> [h \in {q[i].height : i \in 1..Len(q)} |->
                                  LET s == (CHOOSE i \in 1..Len(q) : q[i].height = h)
                                  IN [quorum_nodes |-> q[s].state[1],
                                      nodes_to_test |-> q[s].state[2]]],
                   infos |-> [k \in {n[i].key : i \in 1..Len(n)} |->
                                info_parsed(n[CHOOSE i \in 1..Len(n) : n[i].key = k].info)],
                   events |-> <<>>]]

\* load(): [ok, st]; clear(), then the registry the blob holds when there is one
load(cfg, db) ==
  IF db = <<>> THEN [ok |-> FALSE, st |-> clear(cfg)]
  ELSE LET data_in == db[1]
           q == data_in.quorum_states
           n == data_in.infos
       IN [ok |-> TRUE,
           st |-> [height |-> data_in.height,
                   quorums |-> [h \in {q[i].height : i \in 1..Len(q)} |->
                                  LET s == (CHOOSE i \in 1..Len(q) : q[i].height = h)
                                  IN [quorum_nodes |-> q[s].state[1],
                                      nodes_to_test |-> q[s].state[2]]],
                   infos |-> [k \in {n[i].key : i \in 1..Len(n)} |->
                                info_parsed(n[CHOOSE i \in 1..Len(n) : n[i].key = k].info)],
                   events |-> [i \in 1..Len(data_in.events) |->
                                 event_loaded(data_in.events[i])]]]

\* store(): nothing is written while the chain tip is below hard fork 5;
\* db is <<>> when no blob is stored, <<blob>> otherwise
store(cfg, st, db, tip_height) ==
  IF HardFork(cfg, tip_height) < 5 THEN db ELSE <<data_to_store(st)>>

\* init(): [st, db]; current_height is the number of blocks of the chain
init(cfg, db, chain, current_height) ==
  LET loaded == db # <<>>
      l == load(cfg, db).st
      reset == ~loaded \/ l.height > current_height
  IN IF HardFork(cfg, current_height - 1) < 5 THEN [st |-> clear(cfg), db |-> <<>>]
     ELSE IF loaded /\ l.height = current_height THEN [st |-> l, db |-> db]
     ELSE [st |-> Rescan(cfg, IF reset THEN clear(cfg) ELSE l, chain, current_height),
           db |-> IF reset THEN <<>> ELSE db]

\* faulty variant: a sentinel applies like an event that changes nothing
apply_through_sentinel(e, infos) ==
  IF e.type = "change" THEN [ok |-> TRUE, infos |-> Put(infos, e.key, e.info)]
  ELSE IF e.type = "new"
       THEN IF Has(infos, e.key) THEN [ok |-> TRUE, infos |-> Erase(infos, e.key)]
            ELSE [ok |-> FALSE, infos |-> infos]
  ELSE [ok |-> TRUE, infos |-> infos]

\* rollback_event::apply: [ok, infos]
apply(e, infos) ==
  IF e.type = "change" THEN [ok |-> TRUE, infos |-> Put(infos, e.key, e.info)]
  ELSE IF e.type = "new"
       THEN IF Has(infos, e.key) THEN [ok |-> TRUE, infos |-> Erase(infos, e.key)]
            ELSE [ok |-> FALSE, infos |-> infos]
  ELSE [ok |-> FALSE, infos |-> infos]

\* the first loop of blockchain_detached: [st, failed]
RECURSIVE Undo(_, _)
Undo(st, height) ==
  IF st.events # <<>> /\ st.events[Len(st.events)].h >= height
  THEN LET a == apply(st.events[Len(st.events)], st.infos)
       IN IF ~a.ok THEN [st |-> st, failed |-> TRUE]
          ELSE Undo([st EXCEPT !.infos = a.infos,
                               !.events = SubSeq(@, 1, Len(@) - 1)], height)
  ELSE [st |-> st, failed |-> FALSE]

\* the registry and blob after the first loop: init() when an event failed
\* to apply, u = [st, failed]
reinit_if_failed(cfg, u, db, chain, height) ==
  IF u.failed THEN init(cfg, db, chain, height) ELSE [st |-> u.st, db |-> db]

\* the tail of blockchain_detached on r = [st, db]: drop the quorum states of
\* the popped heights, set the cursor, store()
detach_store(cfg, r, height) ==
  LET s2 == [r.st EXCEPT !.quorums = [q \in {x \in DOMAIN r.st.quorums : x < height} |->
                                        r.st.quorums[q]],
                         !.height = height]
  IN [st |-> s2, db |-> store(cfg, s2, r.db, height - 1)]

\* [st, db] with the outcome of the undo loop
WithFailed(r, failed) == [st |-> r.st, db |-> r.db, failed |-> failed]

detach_after_undo(cfg, u, db, chain, height) ==
  WithFailed(detach_store(cfg, reinit_if_failed(cfg, u, db, chain, height), height), u.failed)

\* blockchain_detached: [st, db, failed]; chain is already cut to height blocks
blockchain_detached(cfg, st, db, chain, height) ==
  detach_after_undo(cfg, Undo(st, height), db, chain, height)

\* block_added once process_block has run: store
block_stored(cfg, s1, db, block) == [st |-> s1, db |-> store(cfg, s1, db, block.height)]

\* faulty variant: the cursor moves two blocks on
block_added_skipping(cfg, st, db, block) ==
  block_stored(cfg, process_block(cfg, [st EXCEPT !.height = IF HardFork(cfg, block.height) < 5 THEN @ ELSE @ + 1], block), db, block)

\* block_added: process_block, then store
block_added(cfg, st, db, block) == block_stored(cfg, process_block(cfg, st, block), db, block)

(***************************************************************************)
(* Winner selection                                                        *)
(***************************************************************************)
\* faulty variant: the transaction index is compared the wrong way round
LexLess_reversed_index(a, b) == a[1] < b[1] \/ (a[1] = b[1] /\ a[2] > b[2])

\* operator< of std::pair
LexLess(a, b) == a[1] < b[1] \/ (a[1] = b[1] /\ a[2] < b[2])

\* faulty variant: below and above hard fork 10 alike, only a fully funded
\* entry met before any over-portioned one is eligible
RECURSIVE SelectLoop_funded_only(_, _, _, _, _, _)
SelectLoop_funded_only(infos, order, hard_fork_version, oldest_waiting, key, overPortioned) ==
  IF order = <<>> THEN key
  ELSE LET k == order[1]
           info == infos[k]
           amount_operator_needs_to_stake ==
             portions_to_amount(info.portions_for_operator, info.staking_requirement)
           over == IF hard_fork_version = 12
                      /\ info.total_contributed < amount_operator_needs_to_stake
                   THEN TRUE ELSE overPortioned
           waiting_since == <<info.last_reward_block_height, info.last_reward_transaction_index>>
           eligible == is_fully_funded(info) /\ ~over
       IN IF eligible /\ LexLess(waiting_since, oldest_waiting)
          THEN SelectLoop_funded_only(infos, Tail(order), hard_fork_version, waiting_since,
                                      k, over)
          ELSE SelectLoop_funded_only(infos, Tail(order), hard_fork_version, oldest_waiting,
                                      key, over)

\* the loop of select_winner over the map in iteration order `order`;
\* overPortioned is never reset between entries
RECURSIVE SelectLoop(_, _, _, _, _, _)
SelectLoop(infos, order, hard_fork_version, oldest_waiting, key, overPortioned) ==
  IF order = <<>> THEN key
  ELSE LET k == order[1]
           info == infos[k]
           amount_operator_needs_to_stake ==
             portions_to_amount(info.portions_for_operator, info.staking_requirement)
           over == IF hard_fork_version = 12
                      /\ info.total_contributed < amount_operator_needs_to_stake
                   THEN TRUE ELSE overPortioned
           waiting_since == <<info.last_reward_block_height, info.last_reward_transaction_index>>
           eligible == \/ (is_valid(info) /\ hard_fork_version > 9)
                       \/ (is_fully_funded(info) /\ ~over)
       IN IF eligible /\ LexLess(waiting_since, oldest_waiting)
          THEN SelectLoop(infos, Tail(order), hard_fork_version, waiting_since, k, over)
          ELSE SelectLoop(infos, Tail(order), hard_fork_version, oldest_waiting, key, over)

select_winner_in(cfg, st, order) ==
  SelectLoop(st.infos, order, HardFork(cfg, st.height), <<UINT64_MAX, UINT32_MAX>>,
             null_pkey, FALSE)

\* the keys select_winner can return, over the iteration orders of the map
select_winner(cfg, st) == {select_winner_in(cfg, st, o) : o \in Perms(DOMAIN st.infos)}

(***************************************************************************)
(* The coinbase: reward parts, construct_miner_tx, validate_miner_tx        *)
(***************************************************************************)
\* faulty variant: the null winner holds no portions
null_winner_without_portions == <<[address |-> null_address, portions |-> 0]>>

null_winner == <<[address |-> null_address, portions |-> STAKING_PORTIONS]>>

\* key is the result of select_winner(); current_hf is the version at the tip
get_winner_addresses_and_portions(st, key, current_hf) ==
  IF key = null_pkey THEN null_winner
  ELSE LET info == st.infos[key]
           operator_portions == info.portions_for_operator
           portion(contributor) ==
             IF current_hf < 12
             THEN LET resultlo == mul_div(contributor.amount,
                                          Sub64(STAKING_PORTIONS, operator_portions),
                                          info.staking_requirement)
                  IN IF contributor.address = info.operator_address
                     THEN Add64(resultlo, operator_portions) ELSE resultlo
             ELSE IF current_hf < 17
             THEN IF contributor.address = info.operator_address
                  THEN mul_div(contributor.amount, STAKING_PORTIONS, MAX_OPERATOR_V12 * COIN)
                  ELSE mul_div(contributor.amount, STAKING_PORTIONS, MAX_POOL_STAKERS_V12 * COIN)
             ELSE mul_div(contributor.amount, STAKING_PORTIONS, info.staking_requirement)
       IN [i \in 1..Len(info.contributors) |->
             [address |-> info.contributors[i].address,
              portions |-> portion(info.contributors[i])]]

\* faulty variant: the multiplication comes before the division
service_node_reward_formula_times_first(base_reward, hard_fork_version) ==
  IF hard_fork_version > 11 THEN (base_reward * 3) \div 4
  ELSE IF hard_fork_version >= SERVICE_NODE_VERSION THEN base_reward \div 2
  ELSE 0

service_node_reward_formula(base_reward, hard_fork_version) ==
  IF hard_fork_version > 11 THEN (base_reward \div 4) * 3
  ELSE IF hard_fork_version >= SERVICE_NODE_VERSION THEN base_reward \div 2
  ELSE 0

\* faulty variant: the share is rounded up
get_portion_of_reward_rounded_up(portions, total_service_node_reward) ==
  mul_div(total_service_node_reward * portions + STAKING_PORTIONS - 1, 1, STAKING_PORTIONS)

get_portion_of_reward(portions, total_service_node_reward) ==
  mul_div(total_service_node_reward, portions, STAKING_PORTIONS)

\* faulty variant: every entry is paid out of the staker reward
PortionAmount_staker_only(portions, i, brr, hf_version) ==
  IF hf_version >= 17 THEN get_portion_of_reward(portions[i + 1].portions, brr.service_node_total)
  ELSE IF hf_version >= 12
  THEN get_portion_of_reward(portions[i + 1].portions, brr.staker_reward)
  ELSE get_portion_of_reward(portions[i + 1].portions, brr.service_node_total)

\* the amount construct_miner_tx pays to entry i (0-based) of the winner list
PortionAmount(portions, i, brr, hf_version) ==
  IF hf_version >= 17 THEN get_portion_of_reward(portions[i + 1].portions, brr.service_node_total)
  ELSE IF hf_version >= 12
  THEN get_portion_of_reward(portions[i + 1].portions,
                             IF i = 0 THEN brr.operator_reward ELSE brr.staker_reward)
  ELSE get_portion_of_reward(portions[i + 1].portions, brr.service_node_total)

RECURSIVE SumPortions(_, _, _, _)
SumPortions(portions, i, brr, hf_version) ==
  IF i >= Len(portions) THEN 0
  ELSE LET reward ==
             IF hf_version >= 17
             THEN get_portion_of_reward(portions[i + 1].portions, brr.service_node_total)
             ELSE IF hf_version >= 12
             THEN IF i = 0
                  THEN get_portion_of_reward(portions[i + 1].portions, brr.operator_reward)
                  ELSE get_portion_of_reward(portions[i + 1].portions, brr.staker_reward)
             ELSE get_portion_of_reward(portions[i + 1].portions, brr.service_node_total)
       IN Add64(reward, SumPortions(portions, i + 1, brr, hf_version))

calculate_sum_of_portions(portions, brr, hf_version) == SumPortions(portions, 0, brr, hf_version)

NoParts == [ok |-> FALSE, original_base_reward |-> 0, adjusted_base_reward |-> 0,
            service_node_total |-> 0, operator_reward |-> 0, staker_reward |-> 0,
            service_node_paid |-> 0, governance |-> 0, dev_fund |-> 0,
            base_miner |-> 0, base_miner_fee |-> 0]

\* reward is the value get_block_reward produces; governance and dev_fund are
\* the amounts allow_governance and allow_dev_fund schedule for the height
get_equilibria_block_reward(reward, governance, dev_fund, already_generated_coins, hard_fork_version, snode_winner_info, fee) ==
  LET gov == IF hard_fork_version >= 7 THEN governance ELSE 0
      dev == IF hard_fork_version >= 17 THEN dev_fund ELSE 0
      base_reward == Add64(Add64(reward, gov), dev)
      r0 == [NoParts EXCEPT !.ok = TRUE, !.governance = gov, !.dev_fund = dev]
      adjusted == Sub64(base_reward, Add64(gov, dev))
      total == service_node_reward_formula(adjusted, hard_fork_version)
      r1 == [r0 EXCEPT !.original_base_reward = base_reward,
                       !.adjusted_base_reward = adjusted,
                       !.service_node_total = total,
                       !.operator_reward = total \div 2,
                       !.staker_reward = Sub64(total, total \div 2)]
      paid == calculate_sum_of_portions(
                IF snode_winner_info = <<>> THEN null_winner ELSE snode_winner_info,
                r1, hard_fork_version)
  IN IF base_reward = 0 THEN NoParts
     ELSE IF already_generated_coins = 0
     THEN [r0 EXCEPT !.original_base_reward = base_reward,
                     !.adjusted_base_reward = base_reward,
                     !.base_miner = base_reward]
     ELSE [r1 EXCEPT !.service_node_paid = paid,
                     !.base_miner = Sub64(adjusted, total),
                     !.base_miner_fee = fee]

miner_reward(parts) == Add64(parts.base_miner, parts.base_miner_fee)

\* derive_public_key(generate_key_derivation(view key, sec), index, spend key)
\* with sec the deterministic key of the height
get_deterministic_output_key(address, height, output_index) == <<address, height, output_index>>

TxOut(amount, key) == [amount |-> amount, type |-> "txout_to_key", key |-> key]
NoMinerTx == [winner |-> null_pkey, vout |-> <<>>]

RECURSIVE SumAmounts(_)
SumAmounts(vout) == IF vout = <<>> THEN 0 ELSE Add64(vout[1].amount, SumAmounts(Tail(vout)))

\* tx.vout.push_back of an output paying `amount` to `address`, when owed
with_output(vout, owed, amount, address, height) ==
  IF owed THEN Append(vout, TxOut(amount, get_deterministic_output_key(address, height, Len(vout))))
  ELSE vout

\* the outputs of the coinbase: miner, winner list, governance, dev fund
miner_tx_outputs(height, miner_address, hard_fork_version, service_node_info, reward_parts) ==
  LET miner_out == <<TxOut(miner_reward(reward_parts), <<miner_address, "txkey", 0>>)>>
      sn_outs == IF hard_fork_version >= SERVICE_NODE_VERSION
                 THEN [i \in 1..Len(service_node_info) |->
                         TxOut(PortionAmount(service_node_info, i - 1, reward_parts,
                                             hard_fork_version),
                               get_deterministic_output_key(service_node_info[i].address,
                                                            height, i))]
                 ELSE <<>>
  IN with_output(with_output(miner_out \o sn_outs,
                             hard_fork_version >= 7 /\ reward_parts.governance > 0,
                             reward_parts.governance, "governance", height),
                 hard_fork_version >= 17 /\ reward_parts.dev_fund > 0,
                 reward_parts.dev_fund, "dev_fund", height)

\* the final check of construct_miner_tx on the outputs built
miner_tx_checked(snode_winner_key, reward_parts, vout) ==
  LET expected_amount == Add64(Add64(Add64(miner_reward(reward_parts),
                                           reward_parts.service_node_paid),
                                     reward_parts.governance), reward_parts.dev_fund)
  IN IF ~reward_parts.ok THEN [ok |-> FALSE, tx |-> NoMinerTx, parts |-> reward_parts]
     ELSE IF SumAmounts(vout) # expected_amount
     THEN [ok |-> FALSE, tx |-> NoMinerTx, parts |-> reward_parts]
     ELSE [ok |-> TRUE, tx |-> [winner |-> snode_winner_key, vout |-> vout],
           parts |-> reward_parts]

\* construct_miner_tx once get_equilibria_block_reward has given reward_parts
miner_tx_built(height, miner_address, hard_fork_version, snode_winner_key, service_node_info, reward_parts) ==
  miner_tx_checked(snode_winner_key, reward_parts,
                   miner_tx_outputs(height, miner_address, hard_fork_version,
                                    service_node_info, reward_parts))

\* [ok, tx, parts]
construct_miner_tx(height, reward, governance, dev_fund, already_generated_coins, fee, miner_address, hard_fork_version, snode_winner_key, snode_winner_info) ==
  miner_tx_built(height, miner_address, hard_fork_version, snode_winner_key,
                 IF snode_winner_info = <<>> THEN null_winner ELSE snode_winner_info,
                 get_equilibria_block_reward(reward, governance, dev_fund,
                   already_generated_coins, hard_fork_version, snode_winner_info, fee))

\* the checks of validate_miner_tx on outputs 1..n, in order; reading an
\* output beyond the end of vout is undefined: any result
RECURSIVE CheckOutputs(_, _, _, _, _, _, _)
CheckOutputs(miner_tx, addresses_and_portions, i, height, hard_fork_version, reward_parts, total_service_node_reward) ==
  IF i >= Len(addresses_and_portions) THEN {TRUE}
  ELSE LET vout_index == i + 1
           reward_part == IF i = 0 THEN reward_parts.operator_reward
                          ELSE reward_parts.staker_reward
           reward == IF hard_fork_version >= 17
                     THEN get_portion_of_reward(addresses_and_portions[i + 1].portions,
                                                total_service_node_reward)
                     ELSE IF hard_fork_version >= 12
                     THEN get_portion_of_reward(addresses_and_portions[i + 1].portions,
                                                reward_part)
                     ELSE get_portion_of_reward(addresses_and_portions[i + 1].portions,
                                                total_service_node_reward)
       IN IF vout_index >= Len(miner_tx.vout) THEN {TRUE, FALSE}
          ELSE LET out == miner_tx.vout[vout_index + 1]
               IN IF out.amount # reward THEN {FALSE}
                  ELSE IF out.type # "txout_to_key" THEN {FALSE}
                  ELSE IF out.key # get_deterministic_output_key(
                                      addresses_and_portions[i + 1].address, height, vout_index)
                  THEN {FALSE}
                  ELSE CheckOutputs(miner_tx, addresses_and_portions, i + 1, height,
                                    hard_fork_version, reward_parts,
                                    total_service_node_reward)

\* the results validate_miner_tx can return when select_winner() returns winner
validate_miner_tx(st, winner, current_hf, miner_tx, height, hard_fork_version, reward_parts) ==
  LET base_reward == reward_parts.adjusted_base_reward
      total_service_node_reward == service_node_reward_formula(base_reward, hard_fork_version)
      addresses_and_portions == get_winner_addresses_and_portions(st, winner, current_hf)
  IN IF hard_fork_version < 5 THEN {TRUE}
     ELSE IF miner_tx.winner # winner THEN {FALSE}
     ELSE IF (Len(miner_tx.vout) - 1 + SIZE_T) % SIZE_T < Len(addresses_and_portions)
     THEN {FALSE}
     ELSE CheckOutputs(miner_tx, addresses_and_portions, 0, height, hard_fork_version,
                       reward_parts, total_service_node_reward)

(***************************************************************************)
(* The transaction pool, modelled from src/cryptonote_core/tx_pool.cpp.    *)
(* Times are scaled: one model unit stands for the lifetime of a pending   *)
(* deregistration.  Weights are scaled to the transaction weight limit.    *)
(* m_cookie, m_parsed_tx_cache and m_input_cache are left out: no          *)
(* operation modelled here reads them, and the result of check_tx_inputs   *)
(* is an input of each call.                                               *)
(***************************************************************************)
MEMPOOL_PRUNE_DEREGISTER_LIFETIME == 1
CRYPTONOTE_MEMPOOL_TX_LIVETIME == 2
CRYPTONOTE_MEMPOOL_TX_FROM_ALT_BLOCK_LIVETIME == 3
CRYPTONOTE_COINBASE_BLOB_RESERVED_SIZE == 1
DEFAULT_TXPOOL_MAX_WEIGHT == 2
HF_VERSION_PER_BYTE_FEE == 8
get_min_block_weight(version) == 6

get_transaction_weight_limit(version) ==
  IF version >= 8
  THEN get_min_block_weight(version) \div 2 - CRYPTONOTE_COINBASE_BLOB_RESERVED_SIZE
  ELSE get_min_block_weight(version) - CRYPTONOTE_COINBASE_BLOB_RESERVED_SIZE

\* the weights of the transactions: an ordinary one, and one above every limit
LightWeight == 1
HeavyWeight == get_transaction_weight_limit(HF_VERSION_PER_BYTE_FEE - 1) + 1

\* a transaction as the pool reads it: the key images of its inputs, its miner
\* fee, its weight, and the target of the deregistration its extra field
\* carries
PoolTx(id, version, type, vin, fee, weight, block_height, service_node_index) ==
  [id |-> id, version |-> version, type |-> type, vin |-> vin, fee |-> fee,
   weight |-> weight, block_height |-> block_height,
   service_node_index |-> service_node_index]

\* the transactions peers and blocks offer, in the order of their hashes
PoolTxs ==
  <<PoolTx("d1", 3, "deregister", <<>>, 0, LightWeight, 30, 0),
    PoolTx("d2", 3, "deregister", <<>>, 0, LightWeight, 30, 0),
    PoolTx("t0", 0, "standard", <<"i2">>, 1, LightWeight, 0, 0),
    PoolTx("t1", 2, "standard", <<"i1">>, 2, LightWeight, 0, 0),
    PoolTx("t2", 2, "standard", <<"i1", "i2">>, 3, LightWeight, 0, 0),
    PoolTx("t3", 2, "standard", <<"i2">>, 2, HeavyWeight, 0, 0)>>

IdRank(id) == CHOOSE i \in 1..Len(PoolTxs) : PoolTxs[i].id = id
TxOf(id) == PoolTxs[IdRank(id)]

is_transfer(tx) == tx.type = "standard"
is_deregister_tx(tx) == tx.type = "deregister"

\* relay methods in the order upgrade_relay_method compares them
RelayRank(method) ==
  CASE method = "none" -> 0
    [] method = "local" -> 1
    [] method = "stem" -> 3
    [] method = "fluff" -> 4
    [] method = "block" -> 5

\* txpool_tx_meta_t::upgrade_relay_method: the method only ever moves up, and
\* a local transaction moves to fluff or block only
upgrade_relay_method(current, method) ==
  /\ RelayRank(current) < RelayRank(method)
  /\ ~(current = "local" /\ method = "stem")

\* txpool_tx_meta_t::matches
matches(method, category) ==
  CASE category = "all" -> TRUE
    [] category = "relayable" -> method # "none"
    [] category = "broadcasted" -> method \in {"fluff", "block"}
    [] category = "legacy" -> method \in {"fluff", "block", "none"}

\* the pool as one value
NoMeta == [weight |-> 0, fee |-> 0, receive_time |-> 0, last_relayed_time |-> 0,
           relay_method |-> "none", double_spend_seen |-> FALSE, pruned |-> FALSE,
           is_deregister |-> FALSE]
EmptyTxPool == [x \in {} |-> NoMeta]
EmptyKeyImages == [x \in {} |-> {}]

kept_by_block(meta) == meta.relay_method = "block"
dandelionpp_stem(meta) == meta.relay_method = "stem"

\* Blockchain::txpool_tx_matches_category
txpool_tx_matches_category(P, id, category) ==
  id \in DOMAIN P.txpool /\ matches(P.txpool[id].relay_method, category)

\* an entry of the ordering container; the rate is fee / weight, scaled so
\* that it stays an integer.  The container is a multiset: equal entries are
\* told apart by a copy number, kept 0..k-1 for k equal entries
SortedEntry(tx, fee, tx_weight, receive_time) ==
  [is_deregister |-> is_deregister_tx(tx), rate |-> (fee * HeavyWeight) \div tx_weight,
   receive_time |-> receive_time, id |-> tx.id, copy |-> 0]

SameEntry(a, b) == [a EXCEPT !.copy = 0] = [b EXCEPT !.copy = 0]

\* emplace
Emplace(S, e) ==
  S \cup {[e EXCEPT !.copy = Cardinality({a \in S : SameEntry(a, e)})]}

\* txCompare: deregistrations first, then the higher rate, then the earlier
\* arrival, then the hash
EntryBefore(a, b) ==
  IF a.is_deregister # b.is_deregister THEN a.is_deregister
  ELSE IF a.rate # b.rate THEN a.rate > b.rate
  ELSE IF a.receive_time # b.receive_time THEN a.receive_time < b.receive_time
  ELSE IF a.id # b.id THEN IdRank(a.id) < IdRank(b.id)
  ELSE a.copy < b.copy

RECURSIVE SortEntries(_)
SortEntries(S) ==
  IF S = {} THEN <<>>
  ELSE LET first == CHOOSE a \in S : \A b \in S \ {a} : EntryBefore(a, b)
       IN <<first>> \o SortEntries(S \ {first})

\* find_tx_in_sorted_container and the erase that follows it: the first entry
\* of the id leaves the container
EraseFirstOf(S, id) ==
  LET mine == {a \in S : a.id = id}
      first == CHOOSE a \in mine : \A b \in mine \ {a} : EntryBefore(a, b)
      equal == {a \in mine : SameEntry(a, first)}
  IN IF mine = {} THEN S
     ELSE S \ {CHOOSE a \in equal : \A b \in equal : b.copy <= a.copy}

Without(map, k) == [x \in (DOMAIN map) \ {k} |-> map[x]]

\* faulty variant: a key image counts as spent only for the id that holds it
have_tx_keyimg_as_spent_own_only(P, key_im, txid) ==
  IF key_im \in DOMAIN P.m_spent_key_images /\ P.m_spent_key_images[key_im] = {txid}
  THEN txpool_tx_matches_category(P, txid, "legacy")
  ELSE FALSE

have_tx_keyimg_as_spent(P, key_im, txid) ==
  IF key_im \in DOMAIN P.m_spent_key_images /\ P.m_spent_key_images[key_im] # {}
  THEN IF P.m_spent_key_images[key_im] # {txid} THEN TRUE
       ELSE txpool_tx_matches_category(P, txid, "legacy")
  ELSE FALSE

have_tx_keyimges_as_spent(P, tx, txid) ==
  \E i \in 1..Len(tx.vin) : have_tx_keyimg_as_spent(P, tx.vin[i], txid)

\* get_transactions: the transactions of the pool a caller is shown
get_transactions(P, sensitive) ==
  {id \in DOMAIN P.txpool :
     matches(P.txpool[id].relay_method, IF sensitive THEN "all" ELSE "broadcasted")}

\* faulty variant: no pending deregistration is ever found
have_deregister_tx_already_never(P, tx, sensitive) ==
  FALSE

have_deregister_tx_already(P, tx, sensitive) ==
  IF is_transfer(tx) THEN FALSE
  ELSE \E id \in get_transactions(P, sensitive) :
          /\ TxOf(id).type = "deregister"
          /\ TxOf(id).block_height = tx.block_height
          /\ TxOf(id).service_node_index = tx.service_node_index

mark_double_spend(P, tx) ==
  [P EXCEPT !.txpool =
     [id \in DOMAIN P.txpool |->
        IF \E i \in 1..Len(tx.vin) :
              /\ tx.vin[i] \in DOMAIN P.m_spent_key_images
              /\ id \in P.m_spent_key_images[tx.vin[i]]
        THEN [P.txpool[id] EXCEPT !.double_spend_seen = TRUE]
        ELSE P.txpool[id]]]

\* the loop of insert_key_images over the inputs that are left
RECURSIVE InsertKeyImages(_, _, _, _, _)
InsertKeyImages(P, images, vin, id, tx_relay) ==
  IF vin = <<>> THEN [ok |-> TRUE, images |-> images]
  ELSE LET kei_image_set == IF vin[1] \in DOMAIN images THEN images[vin[1]] ELSE {}
           one_txid == kei_image_set = {} \/ kei_image_set = {id}
           new_or_previously_private ==
             id \notin kei_image_set \/ ~txpool_tx_matches_category(P, id, "legacy")
       IN IF tx_relay # "block" /\ ~one_txid
          THEN [ok |-> FALSE, images |-> Put(images, vin[1], kei_image_set)]
          ELSE IF ~new_or_previously_private
          THEN [ok |-> FALSE, images |-> Put(images, vin[1], kei_image_set)]
          ELSE InsertKeyImages(P, Put(images, vin[1], kei_image_set \cup {id}),
                               Tail(vin), id, tx_relay)

insert_key_images(P, tx, id, tx_relay) ==
  InsertKeyImages(P, P.m_spent_key_images, tx.vin, id, tx_relay)

\* remove_transaction_keyimages: returns early at the first input it does not
\* find; its callers ignore the result
RECURSIVE remove_transaction_keyimages(_, _, _)
remove_transaction_keyimages(images, vin, actual_hash) ==
  IF vin = <<>> THEN images
  ELSE IF vin[1] \notin DOMAIN images THEN images
  ELSE IF actual_hash \notin images[vin[1]] THEN images
  ELSE remove_transaction_keyimages(
         IF images[vin[1]] = {actual_hash} THEN Without(images, vin[1])
         ELSE Put(images, vin[1], images[vin[1]] \ {actual_hash}),
         Tail(vin), actual_hash)

\* remove_txpool_tx, the weight and the key images of one transaction
RemoveTx(P, id) ==
  [P EXCEPT !.txpool = Without(@, id),
            !.m_txpool_weight = @ - P.txpool[id].weight,
            !.m_spent_key_images = remove_transaction_keyimages(@, TxOf(id).vin, id)]

\* the loop of prune from the entry at position i down to the second one
RECURSIVE PruneFrom(_, _, _, _, _)
PruneFrom(P, entries, i, bytes, time) ==
  IF i <= 1 THEN P
  ELSE IF ~entries[i].is_deregister
          \/ entries[i].receive_time >= time - MEMPOOL_PRUNE_DEREGISTER_LIFETIME
  THEN P
  ELSE IF P.m_txpool_weight <= bytes THEN P
  ELSE IF entries[i].id \notin DOMAIN P.txpool THEN P
  ELSE IF kept_by_block(P.txpool[entries[i].id])
  THEN PruneFrom(P, entries, i - 1, bytes, time)
  ELSE PruneFrom([RemoveTx(P, entries[i].id) EXCEPT
                    !.m_txs_by_fee_and_receive_time = @ \ {entries[i]}],
                 entries, i - 1, bytes, time)

prune(P, bytes, time) ==
  PruneFrom(P, SortEntries(P.m_txs_by_fee_and_receive_time),
            Cardinality(P.m_txs_by_fee_and_receive_time),
            IF bytes = 0 THEN DEFAULT_TXPOOL_MAX_WEIGHT ELSE bytes, time)

\* the verification context of a call
NoTvc == [m_verification_failed |-> FALSE, m_double_spend |-> FALSE,
          m_fee_too_low |-> FALSE, m_too_big |-> FALSE, m_invalid_input |-> FALSE,
          m_invalid_output |-> FALSE, m_verification_impossible |-> FALSE,
          m_added_to_pool |-> FALSE]
FailedTvc == [NoTvc EXCEPT !.m_verification_failed = TRUE]

Rejected(P, flags) == [P |-> P, ret |-> FALSE, tvc |-> flags]

\* the end of add_tx: the weight is counted and the pool pruned
Admitted(P, flags, tx_weight, time) ==
  [P |-> prune([P EXCEPT !.m_txpool_weight = @ + tx_weight], DEFAULT_TXPOOL_MAX_WEIGHT, time),
   ret |-> TRUE, tvc |-> [flags EXCEPT !.m_verification_failed = FALSE]]

\* std::numeric_limits<decltype(meta.last_relayed_time)>::max()
LAST_RELAYED_TIME_MAX == U64 - 1

NewMeta(tx, tx_weight, method, seen, time, last_relayed_time) ==
  [weight |-> tx_weight, fee |-> tx.fee, receive_time |-> time,
   last_relayed_time |-> last_relayed_time, relay_method |-> method,
   double_spend_seen |-> seen, pruned |-> FALSE, is_deregister |-> is_deregister_tx(tx)]

Stored(P, images, tx, meta) ==
  [P EXCEPT !.m_spent_key_images = images,
            !.txpool = Put(@, tx.id, meta),
            !.m_txs_by_fee_and_receive_time =
               Emplace(@, SortedEntry(tx, meta.fee, meta.weight, meta.receive_time))]

\* faulty variant: a transaction of a popped block whose inputs fail is
\* turned away like any other
add_tx_kept_rejected(P, tx, tx_weight, ins, seen, time) ==
  Rejected(P, [FailedTvc EXCEPT !.m_invalid_input = TRUE])

\* check_tx_inputs failed for a transaction of a popped block: it is kept;
\* add_txpool_tx throws for an id the table already holds
add_tx_kept(P, tx, tx_weight, ins, seen, time) ==
  IF ~ins.ok \/ tx.id \in DOMAIN P.txpool
  THEN Rejected([P EXCEPT !.m_spent_key_images = ins.images], FailedTvc)
  ELSE Admitted(Stored(P, ins.images, tx, NewMeta(tx, tx_weight, "block", seen, time, time)),
                [FailedTvc EXCEPT !.m_verification_impossible = TRUE,
                                  !.m_added_to_pool = TRUE],
                tx_weight, time)

\* faulty variant: the entry is written with the method of every call
add_tx_checked_any_method(P, tx, tx_weight, tx_relay, current, ins, time) ==
  IF ~ins.ok
  THEN Rejected([P EXCEPT !.m_spent_key_images = ins.images], FailedTvc)
  ELSE Admitted(Stored(P, ins.images, tx,
                       NewMeta(tx, tx_weight, tx_relay, FALSE, time, LAST_RELAYED_TIME_MAX)),
                [FailedTvc EXCEPT !.m_added_to_pool = TRUE], tx_weight, time)

\* check_tx_inputs passed: the entry is written when the transaction is new
\* or its relay method moves up
add_tx_checked(P, tx, tx_weight, tx_relay, current, ins, time) ==
  IF upgrade_relay_method(current, tx_relay) \/ tx.id \notin DOMAIN P.txpool
  THEN IF ~ins.ok
       THEN Rejected([P EXCEPT !.m_spent_key_images = ins.images], FailedTvc)
       ELSE Admitted(Stored(P, ins.images, tx,
                            NewMeta(tx, tx_weight,
                                    IF upgrade_relay_method(current, tx_relay)
                                    THEN tx_relay ELSE current,
                                    FALSE, time, LAST_RELAYED_TIME_MAX)),
                     [FailedTvc EXCEPT !.m_added_to_pool = TRUE], tx_weight, time)
  ELSE Admitted(P, [FailedTvc EXCEPT !.m_added_to_pool = TRUE], tx_weight, time)

\* the relay method add_tx goes on with: a stem transaction seen again on the
\* stem has looped and is fluffed
LoopedRelay(P, id, tx_relay) ==
  IF id \in DOMAIN P.txpool /\ tx_relay = "stem" /\ dandelionpp_stem(P.txpool[id])
  THEN "fluff" ELSE tx_relay

CurrentRelay(P, id) ==
  IF id \in DOMAIN P.txpool THEN P.txpool[id].relay_method ELSE "none"

\* add_tx from the check_fee test on; tx.fee is what the variable fee holds
add_tx_with_fee(P, tx, tx_weight, tx_relay, version, env, time, sensitive) ==
  IF tx_relay # "block" /\ is_transfer(tx) /\ ~env.fee_ok
  THEN Rejected(P, [FailedTvc EXCEPT !.m_fee_too_low = TRUE])
  ELSE IF (tx_relay # "block" \/ version >= HF_VERSION_PER_BYTE_FEE)
          /\ tx_weight > get_transaction_weight_limit(version)
  THEN Rejected(P, [FailedTvc EXCEPT !.m_too_big = TRUE])
  ELSE IF tx_relay # "block" /\ have_tx_keyimges_as_spent(P, tx, tx.id)
  THEN Rejected(mark_double_spend(P, tx), [FailedTvc EXCEPT !.m_double_spend = TRUE])
  ELSE IF tx_relay # "block" /\ have_deregister_tx_already(P, tx, sensitive)
  THEN Rejected(mark_double_spend(P, tx), [FailedTvc EXCEPT !.m_double_spend = TRUE])
  ELSE IF ~env.outputs_ok
  THEN Rejected(P, [FailedTvc EXCEPT !.m_invalid_output = TRUE])
  ELSE IF ~env.inputs_ok
  THEN IF tx_relay = "block"
       THEN add_tx_kept(P, tx, tx_weight, insert_key_images(P, tx, tx.id, tx_relay),
                        have_tx_keyimges_as_spent(P, tx, tx.id)
                          \/ have_deregister_tx_already(P, tx, sensitive),
                        time)
       ELSE Rejected(P, [FailedTvc EXCEPT !.m_invalid_input = TRUE])
  ELSE add_tx_checked(P, tx, tx_weight, LoopedRelay(P, tx.id, tx_relay),
                      CurrentRelay(P, tx.id),
                      insert_key_images(P, tx, tx.id, LoopedRelay(P, tx.id, tx_relay)),
                      time)

\* get_tx_miner_fee failed: fee_too_low is set in the context and the call
\* goes on
WithFeeFlag(r, failed) == [r EXCEPT !.tvc.m_fee_too_low = @ \/ failed]

\* faulty variant: the ids swept for their age are not looked up
add_tx_forgets_timed_out(P, tx, tx_weight, tx_relay, version, env, time, sensitive) ==
  IF tx.version = 0 THEN Rejected(P, FailedTvc)
  ELSE WithFeeFlag(add_tx_with_fee(P, IF env.miner_fee_ok THEN tx
                                      ELSE [tx EXCEPT !.fee = env.fee],
                                   tx_weight, tx_relay, version, env, time, sensitive),
                   ~env.miner_fee_ok)

\* env: what get_tx_miner_fee, Blockchain::check_fee, check_tx_outputs and
\* check_tx_inputs answer, and the value the variable fee holds when
\* get_tx_miner_fee has not written it
add_tx(P, tx, tx_weight, tx_relay, version, env, time, sensitive) ==
  IF tx.version = 0 THEN Rejected(P, FailedTvc)
  ELSE IF tx_relay # "block" /\ tx.id \in P.m_timed_out_transactions
  THEN Rejected(P, FailedTvc)
  ELSE WithFeeFlag(add_tx_with_fee(P, IF env.miner_fee_ok THEN tx
                                      ELSE [tx EXCEPT !.fee = env.fee],
                                   tx_weight, tx_relay, version, env, time, sensitive),
                   ~env.miner_fee_ok)

\* faulty variant: the weight of the transaction stays in the running sum
take_tx_keeps_weight(P, id) ==
  IF id \notin DOMAIN P.txpool THEN [P |-> P, ret |-> FALSE]
  ELSE [P |-> [RemoveTx(P, id) EXCEPT
                 !.m_txs_by_fee_and_receive_time = EraseFirstOf(@, id),
                 !.m_txpool_weight = P.m_txpool_weight],
        ret |-> TRUE]

take_tx(P, id) ==
  IF id \notin DOMAIN P.txpool THEN [P |-> P, ret |-> FALSE]
  ELSE [P |-> [RemoveTx(P, id) EXCEPT
                 !.m_txs_by_fee_and_receive_time = EraseFirstOf(@, id)],
        ret |-> TRUE]

\* the age test of remove_stuck_transactions
IsStuck(meta, time) ==
  \/ time - meta.receive_time > CRYPTONOTE_MEMPOOL_TX_LIVETIME /\ ~kept_by_block(meta)
  \/ time - meta.receive_time > CRYPTONOTE_MEMPOOL_TX_FROM_ALT_BLOCK_LIVETIME
       /\ kept_by_block(meta)
  \/ meta.is_deregister /\ time - meta.receive_time > MEMPOOL_PRUNE_DEREGISTER_LIFETIME

RECURSIVE RemoveStuck(_, _)
RemoveStuck(P, remove) ==
  IF remove = {} THEN P
  ELSE LET txid == CHOOSE x \in remove : \A y \in remove : IdRank(x) <= IdRank(y)
       IN RemoveStuck([RemoveTx(P, txid) EXCEPT
                         !.m_txs_by_fee_and_receive_time = EraseFirstOf(@, txid),
                         !.m_timed_out_transactions = @ \cup {txid}],
                      remove \ {txid})

remove_stuck_transactions(P, time) ==
  RemoveStuck(P, {txid \in DOMAIN P.txpool : IsStuck(P.txpool[txid], time)})

\* faulty variant: the scratch set is never consulted
have_key_images_never(k_images, tx) ==
  FALSE

have_key_images(k_images, tx) ==
  \E i \in 1..Len(tx.vin) : tx.vin[i] \in k_images

append_key_images(k_images, tx) ==
  k_images \cup {tx.vin[i] : i \in 1..Len(tx.vin)}

\* the block reward of a template of the given weight: get_block_reward as a
\* function of the weight, split by get_equilibria_block_reward
TemplateReward(env, weight) ==
  get_equilibria_block_reward(env.curve[weight], 0, 0, 1, env.version, <<>>, 0)

\* the state of the loop of fill_block_template
NoTemplate == [ok |-> FALSE, stop |-> FALSE, tx_hashes |-> <<>>, total_weight |-> 0,
               fee |-> 0, best_coinbase |-> 0, coinbase |-> 0, k_images |-> {},
               txpool |-> EmptyTxPool]

\* is_transaction_ready_to_go found the inputs spent on the chain
MarkedSpent(acc, id, outcome) ==
  IF outcome = "spent" THEN [acc EXCEPT !.txpool[id].double_spend_seen = TRUE] ELSE acc

\* the decision on a transaction that fits: env.ready is what
\* is_transaction_ready_to_go answers for it
ConsiderReady(acc, id, meta, env) ==
  IF env.ready[id] # "ready" THEN MarkedSpent(acc, id, env.ready[id])
  ELSE IF have_key_images(acc.k_images, TxOf(id)) THEN acc
  ELSE [acc EXCEPT !.tx_hashes = Append(@, id),
                   !.total_weight = @ + meta.weight,
                   !.fee = @ + meta.fee,
                   !.best_coinbase = acc.coinbase,
                   !.k_images = append_key_images(@, TxOf(id))]

\* faulty variant: the coinbase is not compared with the best one so far
ConsiderReward_any_coinbase(acc, id, meta, env, parts) ==
  IF ~parts.ok THEN acc
  ELSE ConsiderReady([acc EXCEPT !.coinbase = parts.base_miner + acc.fee + meta.fee],
                     id, meta, env)

\* the reward test of the optimal filling algorithm
ConsiderReward(acc, id, meta, env, parts) ==
  IF ~parts.ok THEN acc
  ELSE IF parts.base_miner + acc.fee + meta.fee < acc.best_coinbase
  THEN [acc EXCEPT !.coinbase = parts.base_miner + acc.fee + meta.fee]
  ELSE ConsiderReady([acc EXCEPT !.coinbase = parts.base_miner + acc.fee + meta.fee],
                     id, meta, env)

\* one pass of the loop of fill_block_template
Consider(acc, id, meta, env) ==
  IF ~matches(meta.relay_method, "legacy")
     /\ ~(env.m_mine_stem_txes /\ meta.relay_method = "stem")
  THEN acc
  ELSE IF meta.pruned THEN acc
  ELSE IF env.max_total_weight < acc.total_weight + meta.weight THEN acc
  ELSE IF env.version >= SERVICE_NODE_VERSION
  THEN ConsiderReward(acc, id, meta, env, TemplateReward(env, acc.total_weight + meta.weight))
  ELSE IF acc.total_weight > env.median_weight THEN [acc EXCEPT !.stop = TRUE]
  ELSE ConsiderReady(acc, id, meta, env)

RECURSIVE FillFrom(_, _, _)
FillFrom(entries, acc, env) ==
  IF entries = <<>> \/ acc.stop THEN acc
  ELSE FillFrom(Tail(entries),
                IF entries[1].id \in DOMAIN acc.txpool
                THEN Consider(acc, entries[1].id, acc.txpool[entries[1].id], env)
                ELSE acc,
                env)

max_total_weight(median_weight, version) ==
  IF version >= 5 THEN 2 * median_weight - CRYPTONOTE_COINBASE_BLOB_RESERVED_SIZE
  ELSE (130 * median_weight) \div 100 - CRYPTONOTE_COINBASE_BLOB_RESERVED_SIZE

\* env: the median weight, the version, the reward curve, m_mine_stem_txes and
\* the answers of is_transaction_ready_to_go
fill_block_template(P, env, base) ==
  IF ~base.ok THEN NoTemplate
  ELSE FillFrom(SortEntries(P.m_txs_by_fee_and_receive_time),
                [NoTemplate EXCEPT !.ok = TRUE, !.best_coinbase = base.base_miner,
                                   !.txpool = P.txpool],
                env)

(***************************************************************************)
(* The registry driven by the blockchain                                   *)
(***************************************************************************)
VARIABLES
  m_service_nodes_infos,  \* pubkey -> service_node_info
  m_rollback_events,      \* the journal, front first
  m_height,               \* the registry cursor
  m_quorum_states,        \* height -> quorum_state
  m_db,                   \* the blob written by store(): <<>> or <<blob>>
  cfg,                    \* the chain's hard-fork schedule: [fork, hf]
  chain,                  \* the blocks of the main chain from height fork-1 on
  snap,                   \* history: the registry map before each block of chain
  redo,                   \* history: the blocks popped by the last detach
  last,                   \* history: the last hook call and what it did
  ntx,                    \* number of staking transactions submitted so far
  nder,                   \* number of deregistrations submitted so far
  ndetach,                \* number of reorganisations so far
  coinbase                \* the last coinbase built or validated for the next block

\* the transaction pool
VARIABLES
  txpool,                         \* the txpool table of the db: id -> txpool_tx_meta_t
  m_spent_key_images,             \* key image -> ids of the pool that spend it
  m_txs_by_fee_and_receive_time,  \* the ordering container: a multiset of entries
  m_timed_out_transactions,       \* ids swept from the pool for their age
  m_txpool_weight,                \* running sum of the admitted weights
  now,                            \* time(nullptr)
  include_sensitive,              \* default argument of get_transactions
  nadd,                           \* number of add_tx calls so far
  tvc,                            \* history: the last add_tx call and its context
  bl                              \* history: the last block template filled

chainvars == <<m_service_nodes_infos, m_rollback_events, m_height, m_quorum_states,
               m_db, cfg, chain, snap, redo, last, ntx, nder, ndetach, coinbase>>

poolvars == <<txpool, m_spent_key_images, m_txs_by_fee_and_receive_time,
              m_timed_out_transactions, m_txpool_weight, now, include_sensitive,
              nadd, tvc, bl>>

\* the threads that call into the registry and the pool
VARIABLES
  pc,       \* thread -> the call it is in: [op, at, seen, args]
  lock,     \* mutex -> [owner, depth]
  moments   \* history: the registry as it was, or is about to be, between two blocks

threadvars == <<pc, lock, moments>>

vars == <<chainvars, poolvars, threadvars>>

NoCall == [op |-> "none", id |-> "", tx_relay |-> "none", ret |-> FALSE, flags |-> NoTvc,
           bytes |-> 0]
NoBlockTemplate == [op |-> "none", ok |-> FALSE, tx_hashes |-> <<>>, total_weight |-> 0,
                    max_total_weight |-> 0, version |-> 0, curve |-> <<>>]

\* the pool after construction and init over an empty table
\* the registry as one value
St == [infos |-> m_service_nodes_infos, events |-> m_rollback_events,
       height |-> m_height, quorums |-> m_quorum_states]

\* threads and mutexes ------------------------------------------------------
Threads == {"t1", "t2"}

\* a boost::recursive_mutex nobody holds
Free == [owner |-> "none", depth |-> 0]

\* what a reader has read so far: the members named in read
NoSeen == [read |-> {}, height |-> 0, infos |-> EmptyMap, events |-> <<>>,
           quorums |-> EmptyQuorums]

\* a thread outside every call
Idle == [op |-> "idle", at |-> 0, seen |-> NoSeen, args |-> <<>>]

InitThreads ==
  /\ pc = [t \in Threads |-> Idle]
  /\ lock = [m_sn_mutex |-> Free, m_transactions_lock |-> Free, m_blockchain |-> Free]
  /\ moments = {St}

InitTxPool ==
  /\ txpool = EmptyTxPool
  /\ m_spent_key_images = EmptyKeyImages
  /\ m_txs_by_fee_and_receive_time = {}
  /\ m_timed_out_transactions = {}
  /\ m_txpool_weight = 0
  /\ now = 0
  /\ nadd = 0
  /\ tvc = NoCall
  /\ bl = NoBlockTemplate

Top == ChainBase(cfg) + Len(chain)

\* transactions offered to the chain -----------------------------------------
OkUnlock == 1000

TxType(hf) == IF hf >= 18 THEN "stake" ELSE "standard"

RegTx(ty, k, addresses, portions, amount, burn, sig_ok, mp) ==
  [NoTx EXCEPT !.type = ty, !.has_reg = TRUE, !.sn_key = k, !.addresses = addresses,
               !.portions = portions, !.portions_for_operator = portions[1],
               !.expiration_timestamp = BlockTimestamp + 1, !.sig_ok = sig_ok,
               !.contributor = addresses[1], !.amount = amount, !.unlock_time = OkUnlock,
               !.burned_amount = burn, !.total_fee = burn + 1, !.miner_fee = 1, !.mp = mp]

ContribTx(ty, k, a, amount, unlock) ==
  [NoTx EXCEPT !.type = ty, !.sn_key = k, !.contributor = a, !.amount = amount,
               !.unlock_time = unlock, !.burned_amount = 1, !.total_fee = 2, !.miner_fee = 1]

DeregTx(b, j) == [NoTx EXCEPT !.type = "deregister", !.dereg_height = b, !.dereg_index = j]

\* the largest first contribution a registration accepts
FullAmount(hf) == IF hf >= 12 /\ hf < 17 THEN MAX_OPERATOR_V12 * COIN
                  ELSE STAKING_REQUIREMENT_UNITS * COIN

\* the transactions a wallet or quorum would submit against registry st
TxChoices(st, hf, top, ndereg) ==
  LET ty == TxType(hf)
      grace(k) == /\ Has(st.infos, k)
                  /\ top >= st.infos[k].registration_height + get_staking_requirement_lock_blocks
      next == IF Has(st.infos, "k1")
                 /\ \E i \in 1..Len(st.infos["k1"].contributors) :
                       LET c == st.infos["k1"].contributors[i]
                       IN c.address = "a2" /\ c.amount < c.reserved
              THEN "a2" ELSE "a3"
  IN
       (IF ~Has(st.infos, "k1")
        THEN {RegTx(ty, "k1", <<"a1">>, <<4>>, FullAmount(hf), 1, TRUE, 0),
              RegTx(ty, "k1", <<"a1", "a2">>, <<2, 2>>, 2, 1, TRUE, 0)}
        ELSE {})
  \cup (IF grace("k1")
        THEN {RegTx(ty, "k1", <<"a1">>, <<4>>, FullAmount(hf), 1, TRUE, 0),
              RegTx(ty, "k1", <<"a1">>, <<2>>, 2, 0, TRUE, 0)}
        ELSE {})
  \cup (IF Has(st.infos, "k1") /\ ~grace("k1")
        THEN {RegTx(ty, "k1", <<"a3">>, <<4>>, FullAmount(hf), 1, TRUE, 0)}
        ELSE {})
  \cup (IF Has(st.infos, "k1") /\ ~Has(st.infos, "k2")
        THEN {RegTx(ty, "k2", <<"a2">>, <<4>>, FullAmount(hf), 1, TRUE, 0)}
        ELSE {})
  \cup (IF Has(st.infos, "k1") /\ ~is_fully_funded(st.infos["k1"])
        THEN {ContribTx(ty, "k1", next, 2, OkUnlock)}
        ELSE {})
  \cup (IF ndereg < MaxDeregs
        THEN {DeregTx(b, 0) : b \in {x \in DOMAIN st.quorums :
                                       x = top - 1 /\ st.quorums[x].nodes_to_test # <<>>}}
        ELSE {})

IsDereg(tx) == tx.type = "deregister"
CountDeregs(txs) == Cardinality({i \in 1..Len(txs) : IsDereg(txs[i])})

\* lists of at most two transactions within the budget
TxLists(cfg_, st, block, budget, ndereg) ==
  LET hf == HardFork(cfg_, block.height)
      first == TxChoices(st, hf, block.height, ndereg)
      after(t) == process_tx(cfg_, [st |-> st, expired |-> 0, count |-> 0], t, block, 0).st
      all == {<<>>} \cup {<<t>> : t \in first}
             \cup UNION {{<<t, u>> : u \in TxChoices(after(t), hf, block.height,
                                                      ndereg + CountDeregs(<<t>>))} :
                         t \in first}
  IN {txs \in all : Len(txs) - CountDeregs(txs) <= budget}

NoCoinbase == [op |-> "none", ok |-> FALSE, tx |-> NoMinerTx, parts |-> NoParts,
               height |-> 0, hf |-> 0, winner |-> null_pkey, info |-> <<>>,
               built |-> FALSE, result |-> FALSE]
NoRedo == [active |-> FALSE, h |-> 0, blocks |-> <<>>, infos |-> EmptyMap,
           height |-> 0, retained |-> FALSE]
NoLast == [op |-> "none", h |-> 0, hf |-> 0, failed |-> FALSE, pre_height |-> 0,
           target |-> EmptyMap, cull |-> -1, stale |-> FALSE, prevent |-> FALSE,
           left |-> 0, undone |-> 0, rerun |-> EmptyQuorum]

\* the hard-fork schedules explored: fork height and version in force above it
Configs == {[fork |-> StartLow, hf |-> 11], [fork |-> StartLow, hf |-> 17],
            [fork |-> StartHigh, hf |-> 9], [fork |-> StartHigh, hf |-> 12],
            [fork |-> StartHigh, hf |-> 18]}

Init ==
  /\ cfg \in Configs
  /\ m_service_nodes_infos = EmptyMap
  /\ m_rollback_events = <<>>
  /\ m_height = cfg.fork
  /\ m_quorum_states = EmptyQuorums
  /\ m_db = <<>>
  /\ chain = <<>>
  /\ snap = <<>>
  /\ redo = NoRedo
  /\ last = NoLast
  /\ ntx = 0
  /\ nder = 0
  /\ ndetach = 0
  /\ coinbase = NoCoinbase
  /\ InitTxPool
  /\ InitThreads
  /\ include_sensitive = FALSE

SetSt(st) ==
  /\ m_service_nodes_infos' = st.infos
  /\ m_rollback_events' = st.events
  /\ m_height' = st.height
  /\ m_quorum_states' = st.quorums

\* the first bytes of get_block_id_by_height(height): the hash is a function of
\* the block, here a checksum of the fields the registry reads
block_seed(height, winner, txs) == (7 * height + 3 * KeyRank(winner) + Len(txs)) % 120

NewBlock(height, winner, txs) ==
  [height |-> height, timestamp |-> BlockTimestamp, winner |-> winner, txs |-> txs,
   seed |-> block_seed(height, winner, txs)]

\* the blocks the chain can take next: the coinbase names the validated winner
NextBlocks(maxTxs) ==
  IF HardFork(cfg, Top) < 5 THEN {NewBlock(Top, null_pkey, <<>>)}
  ELSE UNION {{NewBlock(Top, w, txs) :
                 txs \in TxLists(cfg, winner_bump(expire_nodes(cfg, St, Top),
                                                  NewBlock(Top, w, <<>>)).st,
                                 NewBlock(Top, w, <<>>), maxTxs - ntx, nder)} :
              w \in select_winner(cfg, St)}

AddBlock(block) ==
  /\ \E r \in {block_added(cfg, St, m_db, block)} :
       /\ SetSt(r.st)
       /\ m_db' = r.db
  /\ chain' = Append(chain, block)
  /\ snap' = Append(snap, m_service_nodes_infos)
  /\ last' = [NoLast EXCEPT !.op = "add", !.h = block.height,
                            !.hf = HardFork(cfg, block.height),
                            !.pre_height = m_height]
  /\ UNCHANGED <<cfg, ndetach, poolvars, threadvars>>

\* the chain accepts a new block
AddNew(maxBlocks, maxTxs) ==
  /\ Len(chain) < maxBlocks + PreFork
  /\ \E block \in NextBlocks(maxTxs) :
       /\ AddBlock(block)
       /\ ntx' = ntx + Len(block.txs) - CountDeregs(block.txs)
       /\ nder' = nder + CountDeregs(block.txs)
       /\ redo' = NoRedo

BlockAdded == AddNew(MaxBlocks, MaxTxs) /\ UNCHANGED coinbase

\* the chain takes back the first of the blocks popped by the last detach
BlockReadded ==
  /\ redo.blocks # <<>>
  /\ AddBlock(redo.blocks[1])
  /\ redo' = [redo EXCEPT !.blocks = Tail(@)]
  /\ UNCHANGED <<ntx, nder, coinbase>>

\* number of events of height >= h in a journal
EventsFrom(events, h) == Cardinality({i \in 1..Len(events) : events[i].h >= h})
\* a journal holds a sentinel of height >= h
SentinelFrom(events, h) ==
  \E i \in 1..Len(events) : events[i].type = "prevent" /\ events[i].h >= h

\* the chain pops its blocks of height >= h and calls the hook
BlockchainDetached ==
  /\ ndetach < MaxDetaches
  /\ \E h \in Max(1, ChainBase(cfg))..(Top - 1) :
       \E keep \in {h - ChainBase(cfg)} :
       \E r \in {blockchain_detached(cfg, St, m_db, SubSeq(chain, 1, keep), h)} :
       \E u \in {Undo(St, h)} :
       /\ SetSt(r.st)
       /\ m_db' = r.db
       /\ chain' = SubSeq(chain, 1, keep)
       /\ snap' = SubSeq(snap, 1, keep)
       /\ redo' = [active |-> TRUE, h |-> h,
                   blocks |-> SubSeq(chain, keep + 1, Len(chain)),
                   infos |-> m_service_nodes_infos, height |-> m_height,
                   retained |-> ~SentinelFrom(m_rollback_events, h)]
       /\ last' = [NoLast EXCEPT
                     !.op = "detach", !.h = h, !.failed = r.failed,
                     !.pre_height = m_height, !.target = snap[keep + 1],
                     !.cull = IF m_rollback_events = <<>> THEN -1
                              ELSE m_rollback_events[1].h,
                     !.stale = SentinelFrom(m_rollback_events, h),
                     !.prevent = r.failed /\ u.st.events[Len(u.st.events)].type = "prevent",
                     !.left = EventsFrom(u.st.events, h),
                     !.undone = Len(m_rollback_events) - Len(u.st.events)]
  /\ ndetach' = ndetach + 1
  /\ UNCHANGED <<cfg, ntx, nder, coinbase, poolvars, threadvars>>

Next == BlockAdded \/ BlockReadded \/ BlockchainDetached

Spec == Init /\ [][Next]_vars

(***************************************************************************)
(* Block templates and coinbase validation on top of the registry          *)
(***************************************************************************)
\* what get_block_reward, allow_governance and allow_dev_fund give for the
\* next block
Rewards == {[reward |-> 8, governance |-> 0, dev_fund |-> 0],
            [reward |-> 13, governance |-> 2, dev_fund |-> 3]}
Fee == 1
\* coins generated so far: none only before the genesis block
AlreadyGenerated(height) == IF height = 0 THEN 0 ELSE 1

\* a block template is built for the next block
ConstructMinerTx ==
  /\ coinbase.op # "construct"
  /\ \E w \in select_winner(cfg, St), r \in Rewards, hf \in {HardFork(cfg, Top)} :
       \E info \in {get_winner_addresses_and_portions(St, w, HardFork(cfg, Top - 1))} :
       \E c \in {construct_miner_tx(Top, r.reward, r.governance, r.dev_fund,
                                     AlreadyGenerated(Top), Fee, "miner", hf, w, info)} :
          coinbase' = [op |-> "construct", ok |-> c.ok, tx |-> c.tx, parts |-> c.parts,
                       height |-> Top, hf |-> hf, winner |-> w, info |-> info,
                       built |-> TRUE, result |-> FALSE]
  /\ UNCHANGED <<m_service_nodes_infos, m_rollback_events, m_height, m_quorum_states,
                 m_db, cfg, chain, snap, redo, last, ntx, nder, ndetach, poolvars, threadvars>>

\* the coinbases a peer can send in place of the one built
Tampered(tx) ==
  {[tx EXCEPT !.vout = <<>>],
   [tx EXCEPT !.vout = SubSeq(@, 1, 1)],
   [tx EXCEPT !.winner = IF @ = "k2" THEN "k1" ELSE "k2"]}
  \cup (IF Len(tx.vout) >= 2
        THEN {[tx EXCEPT !.vout[2].amount = Add64(@, 1)],
              [tx EXCEPT !.vout[2].key = get_deterministic_output_key("a3", 0, 1)],
              [tx EXCEPT !.vout = SubSeq(@, 1, Len(@) - 1)]}
        ELSE {})

\* the coinbase of a received block is validated against the registry
ValidateMinerTx ==
  /\ coinbase.op = "construct"
  /\ coinbase.ok
  /\ \E tx \in {coinbase.tx} \cup Tampered(coinbase.tx) :
       \E v \in validate_miner_tx(St, coinbase.winner, HardFork(cfg, Top - 1), tx,
                                  coinbase.height, coinbase.hf, coinbase.parts) :
         coinbase' = [coinbase EXCEPT !.op = "validate", !.tx = tx,
                                      !.built = (tx = coinbase.tx), !.result = v]
  /\ UNCHANGED <<m_service_nodes_infos, m_rollback_events, m_height, m_quorum_states,
                 m_db, cfg, chain, snap, redo, last, ntx, nder, ndetach, poolvars, threadvars>>

\* the chain accepts the next block; its template is no longer current
MinerBlockAdded == AddNew(MinerBlocks, MinerTxs) /\ coinbase' = NoCoinbase

NextMiner == MinerBlockAdded \/ ConstructMinerTx \/ ValidateMinerTx

SpecMiner == Init /\ [][NextMiner]_vars

(***************************************************************************)
(* The reward split as a function of its inputs                            *)
(***************************************************************************)
\* the hard-fork versions a caller passes
RewardVersions == {1, 4, 5, 6, 7, 11, 12, 16, 17, 18}

\* get_equilibria_block_reward is called once for a block of the given height
\* with what get_block_reward, allow_governance and allow_dev_fund return
RewardFor(height) ==
  /\ coinbase.op = "none"
  /\ \E reward \in 0..MaxReward, governance \in {0, 2}, dev_fund \in {0, 3} :
     \E hf \in RewardVersions :
     \E parts \in {get_equilibria_block_reward(reward, governance, dev_fund,
                       AlreadyGenerated(height), hf, <<>>, Fee)} :
       coinbase' = [NoCoinbase EXCEPT !.op = "reward", !.ok = parts.ok, !.parts = parts,
                                      !.height = height, !.hf = hf]
  /\ UNCHANGED <<m_service_nodes_infos, m_rollback_events, m_height, m_quorum_states,
                 m_db, cfg, chain, snap, redo, last, ntx, nder, ndetach, poolvars, threadvars>>

\* a block on top of a chain that has generated coins
GetBlockReward == RewardFor(cfg.fork)

\* the first block of a chain
GetGenesisReward == RewardFor(0)

NextReward == GetBlockReward \/ GetGenesisReward

SpecReward == Init /\ [][NextReward]_vars

(***************************************************************************)
(* Quorum selection over a populated registry                              *)
(***************************************************************************)
\* the registrations one key can arrive with: fully staked, half staked by a
\* single operator, half staked with the other half reserved
RegVariants(k, hf) ==
  {RegTx(TxType(hf), k, <<"a1">>, <<4>>, FullAmount(hf), 1, TRUE, 0),
   RegTx(TxType(hf), k, <<"a1">>, <<2>>, 2, 1, TRUE, 0),
   RegTx(TxType(hf), k, <<"a1", "a2">>, <<2, 2>>, 2, 1, TRUE, 0)}

\* the transaction lists that register some of the keys, each at most once
RECURSIVE RegLists(_, _)
RegLists(keys, hf) ==
  IF keys = <<>> THEN {<<>>}
  ELSE LET rest == RegLists(Tail(keys), hf)
           first == IF Len(keys) > 3 THEN RegVariants(keys[1], hf)
                    ELSE {RegTx(TxType(hf), keys[1], <<"a1">>, <<4>>, FullAmount(hf), 1, TRUE, 0)}
       IN rest \cup {<<t>> \o r : t \in first, r \in rest}

\* the chain below the fork, and the block at the fork height that registers
\* the nodes
PreForkChain(c) ==
  [i \in 1..PreFork |-> NewBlock(c.fork - PreFork + i - 1, null_pkey, <<>>)]

InitQuorum ==
  /\ cfg \in Configs
  /\ \E txs \in RegLists(QuorumKeys, cfg.hf) :
     \E block \in {NewBlock(cfg.fork, null_pkey, txs)} :
     \E r \in {block_added(cfg, clear(cfg), <<>>, block)} :
       /\ m_service_nodes_infos = r.st.infos
       /\ m_rollback_events = r.st.events
       /\ m_height = r.st.height
       /\ m_quorum_states = r.st.quorums
       /\ m_db = r.db
       /\ chain = Append(PreForkChain(cfg), block)
  /\ snap = [i \in 1..(PreFork + 1) |-> EmptyMap]
  /\ redo = NoRedo
  /\ last = [NoLast EXCEPT !.op = "add", !.h = cfg.fork, !.hf = cfg.hf,
                           !.pre_height = cfg.fork]
  /\ ntx = 0
  /\ nder = 0
  /\ ndetach = 0
  /\ coinbase = NoCoinbase
  /\ InitTxPool
  /\ InitThreads
  /\ include_sensitive = FALSE

\* the chain accepts a block that carries no staking transaction
QuorumBlockAdded == AddNew(QuorumBlocks, 0) /\ UNCHANGED coinbase

\* a second node that holds the same registry, and walks its map in an order
\* of its own, selects the quorum of the last block
QuorumRecomputed ==
  /\ last.op = "add"
  /\ last.hf >= 5
  /\ \E order \in Perms(DOMAIN m_service_nodes_infos) :
       last' = [last EXCEPT
                  !.op = "requorum",
                  !.rerun = quorum_state_of(get_service_nodes_pubkeys_in(cfg, St, order),
                                            chain[Len(chain)].seed)]
  /\ UNCHANGED <<m_service_nodes_infos, m_rollback_events, m_height, m_quorum_states,
                 m_db, cfg, chain, snap, redo, ntx, nder, ndetach, coinbase, poolvars, threadvars>>

NextQuorum == QuorumBlockAdded \/ QuorumRecomputed

SpecQuorum == InitQuorum /\ [][NextQuorum]_vars

(***************************************************************************)
(* The quorum cache over a long chain                                      *)
(***************************************************************************)
CacheBlockAdded == AddNew(CacheBlocks, CacheTxs) /\ UNCHANGED coinbase

NextCache == CacheBlockAdded \/ BlockReadded \/ BlockchainDetached

SpecCache == Init /\ [][NextCache]_vars

(***************************************************************************)
(* The transaction pool driven by peers, blocks and the idle timer         *)
(***************************************************************************)
PoolSt == [txpool |-> txpool, m_spent_key_images |-> m_spent_key_images,
           m_txs_by_fee_and_receive_time |-> m_txs_by_fee_and_receive_time,
           m_timed_out_transactions |-> m_timed_out_transactions,
           m_txpool_weight |-> m_txpool_weight]

SetPool(P) ==
  /\ txpool' = P.txpool
  /\ m_spent_key_images' = P.m_spent_key_images
  /\ m_txs_by_fee_and_receive_time' = P.m_txs_by_fee_and_receive_time
  /\ m_timed_out_transactions' = P.m_timed_out_transactions
  /\ m_txpool_weight' = P.m_txpool_weight

InitPool ==
  /\ cfg = [fork |-> StartLow, hf |-> 11]
  /\ m_service_nodes_infos = EmptyMap
  /\ m_rollback_events = <<>>
  /\ m_height = cfg.fork
  /\ m_quorum_states = EmptyQuorums
  /\ m_db = <<>>
  /\ chain = <<>>
  /\ snap = <<>>
  /\ redo = NoRedo
  /\ last = NoLast
  /\ ntx = 0
  /\ nder = 0
  /\ ndetach = 0
  /\ coinbase = NoCoinbase
  /\ InitTxPool
  /\ InitThreads
  /\ include_sensitive \in BOOLEAN

\* the relay methods a transaction arrives with
RelayMethods == {"stem", "fluff", "block"}
\* the hard-fork versions a caller passes to add_tx
AddVersions == {HF_VERSION_PER_BYTE_FEE - 1, HF_VERSION_PER_BYTE_FEE}
\* what the blockchain answers to the checks of one add_tx call
\* the answers of the checks when get_tx_miner_fee succeeds
AddEnvs == [miner_fee_ok : {TRUE}, fee : {0}, fee_ok : BOOLEAN, outputs_ok : BOOLEAN,
            inputs_ok : BOOLEAN]

\* a peer or a popped block hands a transaction to the pool; the call is
\* recorded when it is the one observed
AddTxWithin(max, observed) ==
  /\ nadd < max
  /\ tvc.op = "none"
  /\ bl.op = "none"
  /\ \E i \in 1..Len(PoolTxs), tx_relay \in RelayMethods :
     \E version \in AddVersions, env \in AddEnvs, observe \in observed :
     \E r \in {add_tx(PoolSt, PoolTxs[i], PoolTxs[i].weight, tx_relay, version, env, now,
                      include_sensitive)} :
       /\ SetPool(r.P)
       /\ tvc' = IF observe
                 THEN [op |-> "add_tx", id |-> PoolTxs[i].id, tx_relay |-> tx_relay,
                       ret |-> r.ret, flags |-> r.tvc, bytes |-> 0]
                 ELSE tvc
  /\ nadd' = nadd + 1
  /\ UNCHANGED <<threadvars, chainvars, now, include_sensitive, bl>>

AddTx == AddTxWithin(MaxAdds, BOOLEAN)

\* a block that is added takes its transactions out of the pool
TakeTx ==
  /\ tvc.op = "none"
  /\ \E id \in DOMAIN txpool :
     \E r \in {take_tx(PoolSt, id)} :
       SetPool(r.P)
  /\ UNCHANGED <<threadvars, chainvars, now, include_sensitive, nadd, tvc, bl>>

\* prune is called with a weight of its own, 0 standing for the maximum; the
\* container holds an entry, as it does when add_tx calls prune
Prune ==
  /\ tvc.op = "none"
  /\ m_txs_by_fee_and_receive_time # {}
  /\ \E bytes \in {0, 1}, observe \in BOOLEAN :
       /\ SetPool(prune(PoolSt, bytes, now))
       /\ tvc' = IF observe THEN [NoCall EXCEPT !.op = "prune", !.bytes = bytes] ELSE tvc
  /\ UNCHANGED <<threadvars, chainvars, now, include_sensitive, nadd, bl>>

\* on_idle sweeps the transactions that are too old
RemoveStuckTransactions ==
  /\ tvc.op = "none"
  /\ SetPool(remove_stuck_transactions(PoolSt, now))
  /\ UNCHANGED <<threadvars, chainvars, now, include_sensitive, nadd, tvc, bl>>

TimePassesUntil(max) ==
  /\ tvc.op = "none"
  /\ bl.op = "none"
  /\ now < max
  /\ now' = now + 1
  /\ UNCHANGED <<threadvars, chainvars, txpool, m_spent_key_images, m_txs_by_fee_and_receive_time,
                 m_timed_out_transactions, m_txpool_weight, include_sensitive, nadd,
                 tvc, bl>>

TimePasses == TimePassesUntil(MaxTime)

NextPool == AddTx \/ TakeTx \/ Prune \/ RemoveStuckTransactions \/ TimePasses

SpecPool == InitPool /\ [][NextPool]_vars

(***************************************************************************)
(* Admission with every answer of the checks add_tx calls, a failing       *)
(* get_tx_miner_fee included                                               *)
(***************************************************************************)
\* what the variable fee of add_tx can hold when get_tx_miner_fee has not
\* written it: below and above every fee of PoolTxs
UninitializedFees == {0, 4}
AdmissionEnvs ==
  {env \in [miner_fee_ok : BOOLEAN, fee : UninitializedFees, fee_ok : BOOLEAN,
            outputs_ok : BOOLEAN, inputs_ok : BOOLEAN] :
     env.miner_fee_ok => env.fee = 0}

\* add_tx for any answer of get_tx_miner_fee; the history keeps the version
\* and what the checks answered
AdmissionAddTx ==
  /\ nadd < AdmissionAdds
  /\ tvc.op = "none"
  /\ \E i \in 1..Len(PoolTxs), tx_relay \in RelayMethods :
     \E version \in AddVersions, env \in AdmissionEnvs, observe \in BOOLEAN :
     \E r \in {add_tx(PoolSt, PoolTxs[i], PoolTxs[i].weight, tx_relay, version, env, now,
                      include_sensitive)} :
       /\ SetPool(r.P)
       /\ tvc' = IF observe
                 THEN [op |-> "add_tx", id |-> PoolTxs[i].id, tx_relay |-> tx_relay,
                       ret |-> r.ret, flags |-> r.tvc, bytes |-> 0,
                       version |-> version, env |-> env]
                 ELSE tvc
  /\ nadd' = nadd + 1
  /\ UNCHANGED <<threadvars, chainvars, now, include_sensitive, bl>>

NextAdmission == AdmissionAddTx \/ TakeTx

SpecAdmission == InitPool /\ [][NextAdmission]_vars

(***************************************************************************)
(* A transaction admitted, taken for a block and admitted again            *)
(***************************************************************************)
RoundTripAddTx == AddTxWithin(RoundTripAdds, {FALSE})
RoundTripTimePasses == TimePassesUntil(RoundTripTime)

\* add_tx admits a transaction, take_tx takes it and add_tx is called again
\* with the same arguments, at once or one tick later; the history keeps the
\* pool the first call left
RoundTrip ==
  /\ tvc.op = "none"
  /\ \E i \in 1..Len(PoolTxs), tx_relay \in RelayMethods, later \in {0, 1} :
     \E version \in AddVersions, env \in AddEnvs :
     \E first \in {add_tx(PoolSt, PoolTxs[i], PoolTxs[i].weight, tx_relay, version, env,
                          now, include_sensitive)} :
       /\ first.ret
       /\ \E taken \in {take_tx(first.P, PoolTxs[i].id)} :
          \E again \in {add_tx(taken.P, PoolTxs[i], PoolTxs[i].weight, tx_relay, version,
                               env, now + later, include_sensitive)} :
            /\ SetPool(again.P)
            /\ tvc' = [op |-> "round_trip", id |-> PoolTxs[i].id, tx_relay |-> tx_relay,
                       ret |-> again.ret, flags |-> again.tvc, bytes |-> 0,
                       taken |-> taken.ret, first |-> first.P]
       /\ now' = now + later
  /\ UNCHANGED <<threadvars, chainvars, include_sensitive, nadd, bl>>

NextRoundTrip == RoundTripAddTx \/ RoundTripTimePasses \/ RemoveStuckTransactions \/ RoundTrip

SpecRoundTrip == InitPool /\ [][NextRoundTrip]_vars

(***************************************************************************)
(* Block templates filled from the pool                                    *)
(***************************************************************************)
\* get_block_reward as a function of the block weight: without penalty, with
\* a penalty above the median, failing above twice the median
RewardCurves == {[w \in 0..3 |-> 8], [w \in 0..3 |-> 8 - 2 * w],
                 [w \in 0..3 |-> IF w <= 2 THEN 8 ELSE 0]}
ReadyAnswers == {"ready", "not_ready", "spent"}

\* the miner asks for a block template
FillBlockTemplate ==
  /\ bl.op = "none"
  /\ txpool # EmptyTxPool
  /\ \E median_weight \in {1, 2}, version \in {4, 11}, curve \in RewardCurves :
     \E stem \in BOOLEAN, ready \in [DOMAIN txpool -> ReadyAnswers] :
     \E env \in {[median_weight |-> median_weight, version |-> version, curve |-> curve,
                  max_total_weight |-> max_total_weight(median_weight, version),
                  m_mine_stem_txes |-> stem, ready |-> ready]} :
     \E t \in {fill_block_template(PoolSt, env, TemplateReward(env, 0))} :
       /\ bl' = [op |-> "fill", ok |-> t.ok, tx_hashes |-> t.tx_hashes,
                 total_weight |-> t.total_weight,
                 max_total_weight |-> env.max_total_weight,
                 version |-> version, curve |-> curve]
       /\ txpool' = IF t.ok THEN t.txpool ELSE txpool
  /\ UNCHANGED <<threadvars, chainvars, m_spent_key_images, m_txs_by_fee_and_receive_time,
                 m_timed_out_transactions, m_txpool_weight, now, include_sensitive,
                 nadd, tvc>>

TemplateAddTx == AddTxWithin(TemplateAdds, {FALSE})

\* the transactions of a template arrive at one instant: the order of the
\* receive times is exercised by the pool specification
NextTemplate == TemplateAddTx \/ FillBlockTemplate

SpecTemplate == InitPool /\ [][NextTemplate]_vars

(***************************************************************************)
(* Calls that run on several threads                                       *)
(***************************************************************************)
\* the steps of a call: taking and leaving a mutex (std::lock_guard,
\* CRITICAL_REGION_LOCAL), reading a member, and the steps named by the call
Lock(l) == [do |-> "lock", on |-> l]
Unlock(l) == [do |-> "unlock", on |-> l]
Read(member) == [do |-> "read", on |-> member]
Do(step) == [do |-> step, on |-> "none"]

\* the public reads of the registry
ReadOps == {"get_service_nodes_pubkeys", "is_service_node", "select_winner",
            "get_winner_addresses_and_portions", "validate_miner_tx",
            "get_quorum_state", "get_service_node_list_state", "store"}

\* the calls into the pool that run on the threads of the daemon
PoolOps == {"prune", "take_tx", "remove_stuck_transactions", "set_relayed",
            "get_relayable_transactions", "fill_block_template", "validate"}

\* faulty variant: the blockchain is locked before the pool
PoolCall_blockchain_first ==
  <<Lock("m_blockchain"), Lock("m_transactions_lock"), Do("body"),
    Unlock("m_transactions_lock"), Unlock("m_blockchain")>>

\* CRITICAL_REGION_LOCAL(m_transactions_lock); CRITICAL_REGION_LOCAL1(m_blockchain);
\* the body; both scopes end with the call
PoolCall ==
  <<Lock("m_transactions_lock"), Lock("m_blockchain"), Do("body"),
    Unlock("m_blockchain"), Unlock("m_transactions_lock")>>

\* the steps of each call in the order of its code; add_tx goes on after its
\* checks as a call that returns early, one that only marks a double spend
\* (mark_double_spend locks both again), or one that stores the transaction
\* and ends in prune()
Program(op) ==
  CASE op \in PoolOps -> PoolCall
    [] op = "add_tx" -> <<Lock("m_transactions_lock"), Do("check")>>
    [] op = "add_tx rejected" ->
         <<Lock("m_transactions_lock"), Do("check"), Unlock("m_transactions_lock")>>
    [] op = "add_tx marked" ->
         <<Lock("m_transactions_lock"), Do("check")>> \o PoolCall
         \o <<Unlock("m_transactions_lock")>>
    [] op = "add_tx stored" ->
         <<Lock("m_transactions_lock"), Do("check"), Lock("m_blockchain"), Do("body"),
           Unlock("m_blockchain"), Lock("m_transactions_lock"), Lock("m_blockchain"),
           Unlock("m_blockchain"), Unlock("m_transactions_lock"),
           Unlock("m_transactions_lock")>>
    [] op = "block_added" ->
         <<Lock("m_sn_mutex"), Do("cursor"), Do("process"), Unlock("m_sn_mutex")>>
    [] op = "get_service_nodes_pubkeys" -> <<Read("height"), Read("infos")>>
    [] op = "is_service_node" ->
         <<Lock("m_sn_mutex"), Read("height"), Read("infos"), Unlock("m_sn_mutex")>>
    [] op = "select_winner" ->
         <<Read("height"), Lock("m_sn_mutex"), Read("infos"), Unlock("m_sn_mutex")>>
    [] op \in {"get_winner_addresses_and_portions", "validate_miner_tx"} ->
         <<Lock("m_sn_mutex"), Read("height"), Lock("m_sn_mutex"), Read("infos"),
           Unlock("m_sn_mutex"), Unlock("m_sn_mutex")>>
    [] op = "get_quorum_state" ->
         <<Lock("m_sn_mutex"), Read("quorums"), Unlock("m_sn_mutex")>>
    [] op = "get_service_node_list_state" ->
         <<Lock("m_sn_mutex"), Read("infos"), Unlock("m_sn_mutex")>>
    [] op = "store" ->
         <<Lock("m_sn_mutex"), Read("quorums"), Read("infos"), Read("events"),
           Unlock("m_sn_mutex"), Read("height"), Do("set_service_node_data")>>
    [] OTHER -> <<>>

Running(t) == pc[t].at >= 1 /\ pc[t].at <= Len(Program(pc[t].op))
Instr(t) == Program(pc[t].op)[pc[t].at]
Advance(t) == pc' = [pc EXCEPT ![t].at = @ + 1]

\* a thread takes a mutex that is free or its own
Acquire(t) ==
  /\ Running(t)
  /\ Instr(t).do = "lock"
  /\ lock[Instr(t).on].owner \in {"none", t}
  /\ lock' = [lock EXCEPT ![Instr(t).on] = [owner |-> t, depth |-> @.depth + 1]]
  /\ Advance(t)
  /\ UNCHANGED <<chainvars, poolvars, moments>>

\* a thread leaves a scope that holds a mutex; the call returns with its
\* last scope
Release(t) ==
  /\ Running(t)
  /\ Instr(t).do = "unlock"
  /\ lock' = [lock EXCEPT ![Instr(t).on] =
                IF @.depth = 1 THEN Free ELSE [@ EXCEPT !.depth = @ - 1]]
  /\ pc' = [pc EXCEPT ![t] = IF @.at = Len(Program(@.op)) THEN Idle
                             ELSE [@ EXCEPT !.at = @ + 1]]
  /\ UNCHANGED <<chainvars, poolvars, moments>>

\* a call that ends outside every scope returns
Return(t) ==
  /\ pc[t].op # "idle"
  /\ pc[t].at = Len(Program(pc[t].op)) + 1
  /\ pc' = [pc EXCEPT ![t] = Idle]
  /\ UNCHANGED <<chainvars, poolvars, lock, moments>>

(***************************************************************************)
(* The registry read while a block is added                                *)
(***************************************************************************)
BlockThread == "t1"

\* the chain hands its next block to block_added
BlockAddedCall(t) ==
  /\ t = BlockThread
  /\ pc[t] = Idle
  /\ Len(chain) < ReaderBlocks + PreFork
  /\ \E block \in NextBlocks(ReaderTxs) :
       pc' = [pc EXCEPT ![t] = [Idle EXCEPT !.op = "block_added", !.at = 1,
                                            !.args = <<block>>]]
  /\ UNCHANGED <<chainvars, poolvars, lock, moments>>

\* process_block: ++m_height, from hard fork 5 on; the registry this block
\* leads to counts as a moment from its first write on
BlockAddedCursor(t) ==
  /\ Running(t)
  /\ Instr(t).do = "cursor"
  /\ m_height' = IF HardFork(cfg, pc[t].args[1].height) >= 5 THEN m_height + 1
                 ELSE m_height
  /\ moments' = moments \cup {process_block(cfg, St, pc[t].args[1])}
  /\ Advance(t)
  /\ UNCHANGED <<m_service_nodes_infos, m_rollback_events, m_quorum_states, m_db, cfg,
                 chain, snap, redo, last, ntx, nder, ndetach, coinbase, poolvars, lock>>

\* process_block after the cursor has moved, and store()
BlockAddedProcess(t) ==
  /\ Running(t)
  /\ Instr(t).do = "process"
  /\ \E block \in {pc[t].args[1]} :
     \E entered \in {IF HardFork(cfg, block.height) >= 5
                      THEN [St EXCEPT !.height = @ - 1] ELSE St} :
     \E r \in {block_added(cfg, entered, m_db, block)} :
       /\ SetSt(r.st)
       /\ m_db' = r.db
       /\ chain' = Append(chain, block)
       /\ snap' = Append(snap, m_service_nodes_infos)
       /\ last' = [NoLast EXCEPT !.op = "add", !.h = block.height,
                                 !.hf = HardFork(cfg, block.height),
                                 !.pre_height = entered.height]
       /\ ntx' = ntx + Len(block.txs) - CountDeregs(block.txs)
       /\ nder' = nder + CountDeregs(block.txs)
  /\ Advance(t)
  /\ UNCHANGED <<cfg, redo, ndetach, coinbase, poolvars, lock, moments>>

\* another thread calls a public read; store() returns at once below hard
\* fork 5
ReadCall(t) ==
  /\ t # BlockThread
  /\ pc[t] = Idle
  /\ \E op \in ReadOps :
       /\ op = "store" => Len(chain) > 0 /\ HardFork(cfg, Top - 1) >= 5
       /\ pc' = [pc EXCEPT ![t] = [Idle EXCEPT !.op = op, !.at = 1]]
  /\ UNCHANGED <<chainvars, poolvars, lock, moments>>

\* the call reads a member of the registry
ReadMember(t) ==
  /\ Running(t)
  /\ Instr(t).do = "read"
  /\ \E member \in {Instr(t).on} :
       pc' = [pc EXCEPT ![t].at = @ + 1,
                        ![t].seen = [@ EXCEPT !.read = @ \cup {member},
                                              ![member] = St[member]]]
  /\ UNCHANGED <<chainvars, poolvars, lock, moments>>

\* store() writes the blob of what it collected
SetServiceNodeData(t) ==
  /\ Running(t)
  /\ Instr(t).do = "set_service_node_data"
  /\ m_db' = <<data_to_store(pc[t].seen)>>
  /\ Advance(t)
  /\ UNCHANGED <<m_service_nodes_infos, m_rollback_events, m_height, m_quorum_states, cfg,
                 chain, snap, redo, last, ntx, nder, ndetach, coinbase, poolvars, lock,
                 moments>>

NextReaders ==
  \E t \in Threads :
    \/ BlockAddedCall(t) \/ BlockAddedCursor(t) \/ BlockAddedProcess(t)
    \/ ReadCall(t) \/ ReadMember(t) \/ SetServiceNodeData(t)
    \/ Acquire(t) \/ Release(t) \/ Return(t)

SpecReaders == Init /\ [][NextReaders]_vars

(***************************************************************************)
(* The pool called from several threads                                    *)
(***************************************************************************)
RECURSIVE SumWeights(_)
SumWeights(table) ==
  IF DOMAIN table = {} THEN 0
  ELSE LET id == CHOOSE x \in DOMAIN table : TRUE
       IN table[id].weight + SumWeights(Without(table, id))

\* the removal loop of validate()
RECURSIVE RemoveInvalid(_, _)
RemoveInvalid(P, remove) ==
  IF remove = {} THEN P
  ELSE LET txid == CHOOSE x \in remove : \A y \in remove : IdRank(x) <= IdRank(y)
       IN RemoveInvalid([RemoveTx(P, txid) EXCEPT
                           !.m_txs_by_fee_and_receive_time = EraseFirstOf(@, txid)],
                        remove \ {txid})

\* validate(): the weight is summed anew; remove holds the transactions above
\* the weight limit of the version or already in the chain
validate(P, remove) ==
  RemoveInvalid([P EXCEPT !.m_txpool_weight = SumWeights(P.txpool)], remove)

\* the relay method a stored transaction has after upgrade_relay_method
upgraded(current, method) == IF upgrade_relay_method(current, method) THEN method ELSE current

\* set_relayed() of one transaction at time, with the embargo drawn for the
\* call: a stem transaction keeps the end of its embargo in last_relayed_time
set_relayed(P, id, method, time, embargo_duration) ==
  IF id \notin DOMAIN P.txpool THEN P
  ELSE [P EXCEPT !.txpool[id] =
          [@ EXCEPT !.relay_method = upgraded(@, method),
                    !.last_relayed_time =
                       IF upgraded(P.txpool[id].relay_method, method) = "stem"
                       THEN Add64(time, embargo_duration) ELSE time]]

\* the templates fill_block_template builds from the pool
TemplateEnvs(P) ==
  {[median_weight |-> median_weight, version |-> version, curve |-> curve,
    max_total_weight |-> max_total_weight(median_weight, version),
    m_mine_stem_txes |-> stem, ready |-> ready] :
     median_weight \in {1, 2}, version \in {4, 11}, curve \in RewardCurves,
     stem \in BOOLEAN, ready \in [DOMAIN P.txpool -> ReadyAnswers]}

TemplateFilled(P, t) == IF t.ok THEN [P EXCEPT !.txpool = t.txpool] ELSE P

\* the embargo random_poisson_seconds draws for the calls of the threads
LockEmbargo == 1

\* the pools a call can leave when its body runs on pool P at time
PoolBodies(op, P, time) ==
  CASE op = "prune" -> {prune(P, bytes, time) : bytes \in {0, 1}}
    [] op = "take_tx" -> {take_tx(P, PoolTxs[i].id).P : i \in 1..Len(PoolTxs)}
    [] op = "remove_stuck_transactions" -> {remove_stuck_transactions(P, time)}
    [] op = "set_relayed" ->
         {set_relayed(P, PoolTxs[i].id, method, time, LockEmbargo) :
            i \in 1..Len(PoolTxs), method \in RelayMethods}
    [] op = "get_relayable_transactions" -> {P}
    [] op = "fill_block_template" ->
         {TemplateFilled(P, fill_block_template(P, env, TemplateReward(env, 0))) :
            env \in TemplateEnvs(P)}
    [] op = "validate" -> {validate(P, remove) : remove \in SUBSET DOMAIN P.txpool}
    [] OTHER -> {P}

\* a thread calls into the pool
PoolCalled(t) ==
  /\ pc[t] = Idle
  /\ \E op \in PoolOps : pc' = [pc EXCEPT ![t] = [Idle EXCEPT !.op = op, !.at = 1]]
  /\ UNCHANGED <<chainvars, poolvars, lock, moments>>

\* the body of the call, inside both critical regions
PoolBody(t) ==
  /\ Running(t)
  /\ Instr(t).do = "body"
  /\ pc[t].op \in PoolOps
  /\ \E P \in PoolBodies(pc[t].op, PoolSt, now) : SetPool(P)
  /\ Advance(t)
  /\ UNCHANGED <<chainvars, now, include_sensitive, nadd, tvc, bl, lock, moments>>

\* a thread calls add_tx
AddTxCalled(t) ==
  /\ pc[t] = Idle
  /\ nadd < LockAdds
  /\ nadd' = nadd + 1
  /\ pc' = [pc EXCEPT ![t] = [Idle EXCEPT !.op = "add_tx", !.at = 1]]
  /\ UNCHANGED <<chainvars, txpool, m_spent_key_images, m_txs_by_fee_and_receive_time,
                 m_timed_out_transactions, m_txpool_weight, now, include_sensitive,
                 tvc, bl, lock, moments>>

\* how add_tx goes on after its checks, which run under the pool lock alone
AddTxPath(P, r) == IF r.ret THEN "add_tx stored"
                   ELSE IF r.P # P THEN "add_tx marked"
                   ELSE "add_tx rejected"

\* the checks of add_tx: what they decide is written in the critical region
\* of the blockchain that follows
AddTxChecked(t) ==
  /\ Running(t)
  /\ Instr(t).do = "check"
  /\ \E i \in 1..Len(PoolTxs), tx_relay \in RelayMethods :
     \E version \in AddVersions, env \in AddEnvs :
     \E r \in {add_tx(PoolSt, PoolTxs[i], PoolTxs[i].weight, tx_relay, version, env, now,
                      include_sensitive)} :
       pc' = [pc EXCEPT ![t].op = AddTxPath(PoolSt, r), ![t].at = @ + 1,
                        ![t].args = <<r.P>>]
  /\ UNCHANGED <<chainvars, poolvars, lock, moments>>

\* add_tx writes the table, the key images and the ordering container
AddTxBody(t) ==
  /\ Running(t)
  /\ Instr(t).do = "body"
  /\ pc[t].op \in {"add_tx marked", "add_tx stored"}
  /\ SetPool(pc[t].args[1])
  /\ Advance(t)
  /\ UNCHANGED <<chainvars, now, include_sensitive, nadd, tvc, bl, lock, moments>>

NextLocks ==
  \E t \in Threads :
    \/ PoolCalled(t) \/ PoolBody(t)
    \/ AddTxCalled(t) \/ AddTxChecked(t) \/ AddTxBody(t)
    \/ Acquire(t) \/ Release(t)

InitLocks == InitPool /\ ~include_sensitive

SpecLocks == InitLocks /\ [][NextLocks]_vars

(***************************************************************************)
(* Registrations of every kind offered to the chain                        *)
(***************************************************************************)
\* a registration of k1 by a1 and a2 that is_registration_tx accepts at every
\* hard-fork version
GoodReg(hf) == RegTx(TxType(hf), "k1", <<"a1", "a2">>, <<2, 2>>, 2, 1, TRUE, 0)

\* the same registration with one field changed at a time: one transaction for
\* each check of is_registration_tx (some pass at some hard-fork versions)
RegistrationFaults(hf) ==
  {[GoodReg(hf) EXCEPT !.has_reg = FALSE],
   [GoodReg(hf) EXCEPT !.sn_key = null_pkey],
   [GoodReg(hf) EXCEPT !.portions = <<4>>],
   [GoodReg(hf) EXCEPT !.addresses = <<>>, !.portions = <<>>],
   [GoodReg(hf) EXCEPT !.portions = <<3, 2>>],
   [GoodReg(hf) EXCEPT !.portions = <<2, 1>>, !.mp = 2],
   [GoodReg(hf) EXCEPT !.portions_for_operator = STAKING_PORTIONS + 1],
   [GoodReg(hf) EXCEPT !.sig_ok = FALSE],
   [GoodReg(hf) EXCEPT !.expiration_timestamp = BlockTimestamp - 1],
   [GoodReg(hf) EXCEPT !.contributor = no_address],
   [GoodReg(hf) EXCEPT !.contributor = "a3"],
   [GoodReg(hf) EXCEPT !.amount = 0],
   [GoodReg(hf) EXCEPT !.amount = 1],
   [GoodReg(hf) EXCEPT !.unlock_time = 0],
   [GoodReg(hf) EXCEPT !.amount = MAX_OPERATOR_V12 * COIN + 1],
   [GoodReg(hf) EXCEPT !.burned_amount = 0],
   [GoodReg(hf) EXCEPT !.addresses = <<"a1", "a1">>]}

RegistrationTxs(hf) ==
  {GoodReg(hf), RegTx(TxType(hf), "k1", <<"a1">>, <<4>>, FullAmount(hf), 1, TRUE, 0)}
  \cup RegistrationFaults(hf)

\* the transactions of a block: none, one registration, or a registration the
\* registry accepts followed by a second one
RegistrationLists(hf) ==
  {<<>>} \cup {<<t>> : t \in RegistrationTxs(hf)}
         \cup {<<GoodReg(hf), t>> : t \in RegistrationTxs(hf)}

RegistrationNextBlocks ==
  IF HardFork(cfg, Top) < 5 THEN {NewBlock(Top, null_pkey, <<>>)}
  ELSE {NewBlock(Top, w, txs) : w \in select_winner(cfg, St),
                                txs \in RegistrationLists(HardFork(cfg, Top))}

\* the chain accepts a block of registrations
RegistrationBlockAdded ==
  /\ Len(chain) < RegistrationBlocks + PreFork
  /\ \E block \in RegistrationNextBlocks :
       /\ AddBlock(block)
       /\ ntx' = ntx + Len(block.txs)
  /\ UNCHANGED <<nder, redo, coinbase>>

NextRegistration == RegistrationBlockAdded

SpecRegistration == Init /\ [][NextRegistration]_vars

(***************************************************************************)
(* Contributions of every kind offered to the chain                        *)
(***************************************************************************)
\* registrations of k1 that leave a part of the requirement open: a1 alone
\* with half of it, a1 with a place reserved for a2, a1 with a smaller place
\* reserved for a2
OpenRegs(hf) ==
  {RegTx(TxType(hf), "k1", <<"a1">>, <<2>>, 2, 1, TRUE, 0),
   GoodReg(hf),
   RegTx(TxType(hf), "k1", <<"a1", "a2">>, <<2, 1>>, 2, 1, TRUE, 0)}

\* contributions to k1 from a listed or a new address, of nothing, of less
\* than half the requirement, and of half of it
Contributions(hf) ==
  {ContribTx(TxType(hf), "k1", a, amount, OkUnlock) : a \in Addrs, amount \in 0..2}

\* the transactions of a block: at most two of these
ContributionLists(hf) ==
  LET txs == OpenRegs(hf) \cup Contributions(hf)
  IN {<<>>} \cup {<<t>> : t \in txs} \cup {<<t, u>> : t \in txs, u \in txs}

ContributionNextBlocks ==
  IF HardFork(cfg, Top) < 5 THEN {NewBlock(Top, null_pkey, <<>>)}
  ELSE {NewBlock(Top, w, txs) : w \in select_winner(cfg, St),
                                txs \in ContributionLists(HardFork(cfg, Top))}

\* the chain accepts a block of registrations and contributions
ContributionBlockAdded ==
  /\ Len(chain) < ContributionBlocks + PreFork
  /\ \E block \in ContributionNextBlocks :
       /\ AddBlock(block)
       /\ ntx' = ntx + Len(block.txs)
  /\ UNCHANGED <<nder, redo, coinbase>>

NextContribution == ContributionBlockAdded

SpecContribution == Init /\ [][NextContribution]_vars

(***************************************************************************)
(* Deregistrations of every kind offered to a populated registry           *)
(***************************************************************************)
\* the nodes the fork block registers: none, two, or five (no node, one node
\* and two nodes to test in the quorum state of the block)
Populations == {<<>>, <<"k1", "k2">>, QuorumKeys}

InitDeregistration ==
  /\ cfg \in Configs
  /\ \E keys \in Populations :
     \E block \in {NewBlock(cfg.fork, null_pkey,
                            [i \in 1..Len(keys) |->
                               RegTx(TxType(cfg.hf), keys[i], <<"a1">>, <<4>>,
                                     FullAmount(cfg.hf), 1, TRUE, 0)])} :
     \E r \in {block_added(cfg, clear(cfg), <<>>, block)} :
       /\ m_service_nodes_infos = r.st.infos
       /\ m_rollback_events = r.st.events
       /\ m_height = r.st.height
       /\ m_quorum_states = r.st.quorums
       /\ m_db = r.db
       /\ chain = Append(PreForkChain(cfg), block)
       /\ ntx = Len(keys)
  /\ snap = [i \in 1..(PreFork + 1) |-> EmptyMap]
  /\ redo = NoRedo
  /\ last = [NoLast EXCEPT !.op = "add", !.h = cfg.fork, !.hf = cfg.hf,
                           !.pre_height = cfg.fork]
  /\ nder = 0
  /\ ndetach = 0
  /\ coinbase = NoCoinbase
  /\ InitTxPool
  /\ InitThreads
  /\ include_sensitive = FALSE

\* deregistrations that name the quorum state of the block before, or the
\* one of this block, which is not cached yet, and a place in nodes_to_test
\* that exists or not
Deregistrations(top) == {DeregTx(b, j) : b \in {top - 1, top}, j \in 0..2}

\* the transactions of a block: at most two of these
DeregistrationLists(top) ==
  {<<>>} \cup {<<t>> : t \in Deregistrations(top)}
         \cup {<<t, u>> : t \in Deregistrations(top), u \in Deregistrations(top)}

\* the chain accepts a block of deregistrations
DeregistrationBlockAdded ==
  /\ Len(chain) < DeregistrationBlocks + 1 + PreFork
  /\ \E w \in select_winner(cfg, St), txs \in DeregistrationLists(Top) :
       /\ AddBlock(NewBlock(Top, w, txs))
       /\ nder' = nder + Len(txs)
  /\ UNCHANGED <<ntx, redo, coinbase>>

NextDeregistration == DeregistrationBlockAdded

SpecDeregistration == InitDeregistration /\ [][NextDeregistration]_vars

(***************************************************************************)
(* Winners of the blocks that follow a populated registry                  *)
(***************************************************************************)
\* the staking transactions of the fork block: k1 is registered with a place
\* reserved and filled by the contribution, k2 by an operator who stakes the
\* largest first contribution, k3 by an operator who keeps half of the
\* requirement open
WinnerTxs(hf) ==
  {RegTx(TxType(hf), "k1", <<"a1", "a2">>, <<2, 2>>, 2, 1, TRUE, 0),
   ContribTx(TxType(hf), "k1", "a2", 2, OkUnlock),
   RegTx(TxType(hf), "k2", <<"a2">>, <<4>>, FullAmount(hf), 1, TRUE, 0),
   RegTx(TxType(hf), "k3", <<"a1">>, <<2>>, 2, 1, TRUE, 0)}

\* the lists of n of the transactions, each at most once
RECURSIVE Arrangements(_, _)
Arrangements(txs, n) ==
  IF n = 0 THEN {<<>>}
  ELSE UNION {{<<t>> \o rest : rest \in {r \in Arrangements(txs, n - 1) :
                                           \A i \in 1..Len(r) : r[i] # t}} :
              t \in txs}

WinnerLists(hf) == UNION {Arrangements(WinnerTxs(hf), n) : n \in 0..Cardinality(WinnerTxs(hf))}

InitWinner ==
  /\ cfg \in Configs
  /\ \E txs \in WinnerLists(cfg.hf) :
     \E block \in {NewBlock(cfg.fork, null_pkey, txs)} :
     \E r \in {block_added(cfg, clear(cfg), <<>>, block)} :
       /\ m_service_nodes_infos = r.st.infos
       /\ m_rollback_events = r.st.events
       /\ m_height = r.st.height
       /\ m_quorum_states = r.st.quorums
       /\ m_db = r.db
       /\ chain = Append(PreForkChain(cfg), block)
       /\ ntx = Len(txs)
  /\ snap = [i \in 1..(PreFork + 1) |-> EmptyMap]
  /\ redo = NoRedo
  /\ last = [NoLast EXCEPT !.op = "add", !.h = cfg.fork, !.hf = cfg.hf,
                           !.pre_height = cfg.fork]
  /\ nder = 0
  /\ ndetach = 0
  /\ coinbase = NoCoinbase
  /\ InitTxPool
  /\ InitThreads
  /\ include_sensitive = FALSE

\* the chain accepts a block without transactions whose coinbase names the
\* node select_winner() returns
WinnerBlockAdded ==
  /\ Len(chain) < WinnerBlocks + 1 + PreFork
  /\ \E w \in select_winner(cfg, St) : AddBlock(NewBlock(Top, w, <<>>))
  /\ UNCHANGED <<ntx, nder, redo, coinbase>>

NextWinner == WinnerBlockAdded

SpecWinner == InitWinner /\ [][NextWinner]_vars

(***************************************************************************)
(* The relay schedule: add_tx, set_relayed and get_relayable_transactions  *)
(* while the clock runs                                                    *)
(***************************************************************************)
\* scaled: 60 * 5 and 60 * 60 * 4 seconds
MIN_RELAY_TIME == 1
MAX_RELAY_TIME == 2

\* a kind of increasing backoff within min/max bounds
get_relay_delay(time, received) ==
  Min(((time - received + MIN_RELAY_TIME) \div MIN_RELAY_TIME) * MIN_RELAY_TIME,
      MAX_RELAY_TIME)

\* txpool_tx_meta_t::do_not_relay
do_not_relay(meta) == meta.relay_method = "none"

\* the test of get_relayable_transactions on one entry of the table at time
relayable(meta, time) ==
  /\ matches(meta.relay_method, "relayable")
  /\ ~meta.pruned /\ meta.fee > 0 /\ ~do_not_relay(meta) /\ ~meta.is_deregister
  /\ ~(/\ ~dandelionpp_stem(meta)
       /\ Sub64(time, meta.last_relayed_time) <= get_relay_delay(time, meta.receive_time))
  /\ ~(dandelionpp_stem(meta) /\ meta.last_relayed_time < time)
  /\ Sub64(time, meta.receive_time)
       <= (IF kept_by_block(meta) THEN CRYPTONOTE_MEMPOOL_TX_FROM_ALT_BLOCK_LIVETIME
           ELSE CRYPTONOTE_MEMPOOL_TX_LIVETIME) \div 2

\* the ids get_relayable_transactions returns at time
get_relayable_transactions(P, time) ==
  {id \in DOMAIN P.txpool : relayable(P.txpool[id], time)}

\* the relay methods callers pass
AllRelayMethods == {"none", "local", "stem", "fluff", "block"}
\* the transactions relayed
RelayIds == {"t1", "d1"}
\* the embargoes random_poisson_seconds draws
EmbargoDurations == {0, 1, 2}

\* add_tx with any relay method; the history keeps the call
RelayAddTx ==
  /\ nadd < RelayAdds
  /\ \E id \in RelayIds, tx_relay \in AllRelayMethods :
     \E env \in AddEnvs :
     \E r \in {add_tx(PoolSt, TxOf(id), TxOf(id).weight, tx_relay, HF_VERSION_PER_BYTE_FEE,
                      env, now, include_sensitive)} :
       /\ SetPool(r.P)
       /\ tvc' = [op |-> "add_tx", id |-> id, tx_relay |-> tx_relay, ret |-> r.ret]
  /\ nadd' = nadd + 1
  /\ UNCHANGED <<threadvars, chainvars, now, include_sensitive, bl>>

\* the protocol handler reports a transaction as relayed
SetRelayed ==
  /\ \E id \in RelayIds, method \in AllRelayMethods, embargo_duration \in EmbargoDurations :
       /\ SetPool(set_relayed(PoolSt, id, method, now, embargo_duration))
       /\ tvc' = NoCall
  /\ UNCHANGED <<threadvars, chainvars, now, include_sensitive, nadd, bl>>

\* on_idle asks for the transactions to relay; the history keeps the answer
GetRelayableTransactions ==
  /\ tvc' = [op |-> "get_relayable_transactions",
             txs |-> get_relayable_transactions(PoolSt, now)]
  /\ UNCHANGED <<threadvars, chainvars, txpool, m_spent_key_images,
                 m_txs_by_fee_and_receive_time, m_timed_out_transactions, m_txpool_weight,
                 now, include_sensitive, nadd, bl>>

RelayTimePasses ==
  /\ now < RelayTime
  /\ now' = now + 1
  /\ tvc' = NoCall
  /\ UNCHANGED <<threadvars, chainvars, txpool, m_spent_key_images,
                 m_txs_by_fee_and_receive_time, m_timed_out_transactions, m_txpool_weight,
                 include_sensitive, nadd, bl>>

NextRelay == RelayAddTx \/ SetRelayed \/ GetRelayableTransactions \/ RelayTimePasses

InitRelay == InitPool /\ ~include_sensitive

SpecRelay == InitRelay /\ [][NextRelay]_vars

(***************************************************************************)
(* Properties of the registry under block_added and blockchain_detached    *)
(***************************************************************************)
Entries == {m_service_nodes_infos[k] : k \in DOMAIN m_service_nodes_infos}

\* C1: for blocks h..k processed by the registry (h at or above the fork),
\* while the journal still holds every event of those blocks,
\* blockchain_detached(h) leaves the map equal to the map as it was
\* immediately before block h was applied.
C1_DetachRestoresMap ==
  (last.op = "detach" /\ last.h >= cfg.fork /\ ~last.stale) =>
    m_service_nodes_infos = last.target

\* C2: in every entry the contributors' amounts sum to total_contributed,
\* their reserved amounts sum to total_reserved, and no contributor holds
\* more than its reserved amount.
C2_Sums ==
  \A info \in Entries :
    /\ SumSeq(info.contributors, "amount") = info.total_contributed
    /\ SumSeq(info.contributors, "reserved") = info.total_reserved
    /\ \A i \in 1..Len(info.contributors) :
         info.contributors[i].amount <= info.contributors[i].reserved
    /\ info.total_contributed <= info.total_reserved

\* a block has been applied that added to a contributor that was already
\* present or reserved, and a detach has been applied as well
C2_Witness ==
  /\ ndetach > 0
  /\ \E info \in Entries :
       /\ Len(info.contributors) = 2
       /\ info.contributors[2].amount > 0
       /\ info.total_contributed = info.staking_requirement

C9_ReapplyEqual ==
  (redo.active /\ redo.h >= cfg.fork /\ redo.retained /\ redo.blocks = <<>>) =>
    /\ m_service_nodes_infos = redo.infos
    /\ m_height = redo.height

\* C10 as stated: with c the cull height recorded by the last processed block,
\* detach(h) with h <= c reaches a sentinel and rebuilds through init();
\* detach(h) with h > c applies no sentinel and undoes and removes every
\* event of height >= h.
C10_CullHeightDecides ==
  (last.op = "detach" /\ last.cull >= 0) =>
    /\ last.h <= last.cull => (last.failed /\ last.prevent)
    /\ last.h > last.cull => (~last.prevent /\ ~last.failed /\ last.left = 0)

\* C10, amended: detach(h) reaches a sentinel, fails and rebuilds through
\* init() exactly when the journal holds a sentinel of height >= h or a
\* registration event whose key is no longer in the map; otherwise no
\* sentinel is applied and every event of height >= h is undone and removed.
C10_SentinelDecides ==
  last.op = "detach" =>
    /\ last.stale => last.failed
    /\ last.h <= last.cull => last.stale
    /\ last.prevent => last.stale
    /\ ~last.failed => (last.left = 0 /\ ~last.prevent)

\* a detach above every sentinel has undone and removed events
C10_Witness ==
  last.op = "detach" /\ ~last.stale /\ ~last.failed /\ last.undone > 0 /\ last.left = 0

(***************************************************************************)
(* Properties of winner selection and of the coinbase                      *)
(***************************************************************************)
\* entry a has waited longer than entry b: lexicographic order of the cursors
WaitsLonger(a, b) ==
  \/ a.last_reward_block_height < b.last_reward_block_height
  \/ /\ a.last_reward_block_height = b.last_reward_block_height
     /\ a.last_reward_transaction_index < b.last_reward_transaction_index

\* the entry's contribution is below the operator's share of the requirement
OverPortioned(info) ==
  info.total_contributed < portions_to_amount(info.portions_for_operator,
                                              info.staking_requirement)

\* the entries the winner is to be chosen among under version hf
Eligible(hf) ==
  {k \in DOMAIN m_service_nodes_infos :
     LET info == m_service_nodes_infos[k]
     IN IF hf >= 10 THEN is_valid(info)
        ELSE is_fully_funded(info) /\ ~OverPortioned(info)}

C6_AcceptedOnlyIfPaid ==
  (coinbase.op = "validate" /\ coinbase.hf >= 5 /\ coinbase.result) =>
    /\ coinbase.tx.winner = coinbase.winner
    /\ Len(coinbase.tx.vout) >= Len(coinbase.info) + 1
    /\ \A i \in 1..Len(coinbase.info) :
         coinbase.tx.vout[i + 1].amount
           = PortionAmount(coinbase.info, i - 1, coinbase.parts, coinbase.hf)

\* C7: for hf >= 5 the coinbase built by construct_miner_tx from select_winner()
\* and get_winner_addresses_and_portions() is built successfully and accepted
\* by validate_miner_tx for the same state, height, version and reward parts.
C7_BuiltIsAccepted ==
  /\ (coinbase.op = "construct" /\ coinbase.hf >= 5) => coinbase.ok
  /\ (coinbase.op = "validate" /\ coinbase.hf >= 5 /\ coinbase.built) => coinbase.result

\* the coinbase built for a winner with two contributors has been validated
C7_Witness ==
  /\ coinbase.op = "validate"
  /\ coinbase.built
  /\ coinbase.hf >= 5
  /\ coinbase.winner # null_pkey
  /\ Len(coinbase.info) = 2
  /\ coinbase.result

\* the amount the coinbase pays to the null address when there is no winner
NullWinnerAmount ==
  IF coinbase.hf >= 12 /\ coinbase.hf < 17 THEN coinbase.parts.operator_reward
  ELSE coinbase.parts.service_node_total

\* C8 as stated: with the null winner the coinbase carries no service-node
\* output of value, service_node_paid is 0, and the validator accepts a
\* coinbase without a service-node output.
C8_NullWinnerPaysNothing ==
  (coinbase.hf >= 5 /\ coinbase.winner = null_pkey) =>
    /\ (coinbase.op = "construct" /\ coinbase.ok) =>
         /\ \A i \in 2..(Len(coinbase.info) + 1) : coinbase.tx.vout[i].amount = 0
         /\ coinbase.parts.service_node_paid = 0
    /\ (coinbase.op = "validate" /\ Len(coinbase.tx.vout) = 1) => coinbase.result

\* C8, amended: with the null winner the coinbase carries one service-node
\* output, at index 1, keyed to the null address, of amount service_node_total
\* (operator_reward for 12 <= hf < 17); service_node_paid is that amount; the
\* validator rejects a coinbase that has the miner output only.
C8_NullWinnerPaysNullAddress ==
  (coinbase.hf >= 5 /\ coinbase.winner = null_pkey) =>
    /\ (coinbase.op = "construct" /\ coinbase.ok) =>
         /\ Len(coinbase.info) = 1
         /\ Len(coinbase.tx.vout) >= 2
         /\ coinbase.tx.vout[2].amount = NullWinnerAmount
         /\ coinbase.tx.vout[2].key
              = get_deterministic_output_key(null_address, coinbase.height, 1)
         /\ coinbase.parts.service_node_paid = NullWinnerAmount
    /\ (coinbase.op = "validate" /\ Len(coinbase.tx.vout) = 1) => ~coinbase.result

\* a coinbase built with the null winner pays a positive amount to the null
\* address and has been validated
C8_Witness ==
  /\ coinbase.op = "validate"
  /\ coinbase.built
  /\ coinbase.hf >= 5
  /\ coinbase.winner = null_pkey
  /\ coinbase.tx.vout[2].amount > 0
  /\ coinbase.result

(***************************************************************************)
(* Properties of expiry and re-registration                                *)
(***************************************************************************)
\* lock_blocks + excess, the span get_expired_nodes adds to registration_height
LockSpan == get_staking_requirement_lock_blocks + STAKING_REQUIREMENT_LOCK_BLOCKS_EXCESS

\* the step hands a block to block_added
IsAddStep == Len(chain') = Len(chain) + 1
AddedBlock == chain'[Len(chain')]

\* the block carries a deregistration that names key k
Deregisters(block, k) ==
  \E i \in 1..Len(block.txs) :
    LET tx == block.txs[i]
        state == get_quorum_state(St, tx.dereg_height)
    IN /\ tx.type = "deregister"
       /\ tx.dereg_index < Len(state.nodes_to_test)
       /\ state.nodes_to_test[tx.dereg_index + 1] = k

\* key k holds, after the step, the registration of height R it held before
KeepsRegistration(k, R) ==
  /\ k \in DOMAIN m_service_nodes_infos'
  /\ m_service_nodes_infos'[k].registration_height = R

\* C11 as stated: a node registered at R is removed while processing the
\* block at height exactly R + lock_blocks + excess, so after block_added of
\* the block at height H no entry has registration_height + lock_blocks +
\* excess <= H.
C11_ExpiresAtLockExcess ==
  (last.op = "add" /\ last.hf >= 5) =>
    \A k \in DOMAIN m_service_nodes_infos :
      m_service_nodes_infos[k].registration_height + LockSpan > last.h

\* C11, amended: at hf >= 5 a node registered at R that is neither
\* re-registered nor deregistered is still in the registry after every block
\* of height up to and including R + lock_blocks + excess, and is removed,
\* with a Change event holding its entry pushed, while processing the block
\* at height exactly R + lock_blocks + excess + 1.
C11_ExpiresAfterLockExcess ==
  [][(IsAddStep /\ HardFork(cfg, AddedBlock.height) >= 5) =>
       \A k \in DOMAIN m_service_nodes_infos :
         LET info == m_service_nodes_infos[k]
             R == info.registration_height
             H == AddedBlock.height
         IN /\ H <= R + LockSpan + 1
            /\ (H <= R + LockSpan /\ ~Deregisters(AddedBlock, k)
                 /\ ~KeepsRegistration(k, H))
                 => KeepsRegistration(k, R)
            /\ H = R + LockSpan + 1 =>
                 /\ ~KeepsRegistration(k, R)
                 /\ \E i \in 1..Len(m_rollback_events') :
                      m_rollback_events'[i] = rollback_change(H, k, info)]_vars

\* the last block removed a node whose registration is lock_blocks + excess + 1
\* blocks old and left the Change event in the journal
C11_Witness ==
  /\ last.op = "add"
  /\ last.hf >= 5
  /\ \E i \in 1..Len(m_rollback_events) :
       LET e == m_rollback_events[i]
       IN /\ e.type = "change"
          /\ e.h = last.h
          /\ e.info.registration_height + LockSpan + 1 = last.h
          /\ e.key \notin DOMAIN m_service_nodes_infos

\* the registry as transaction i (1-based) of the added block finds it
BeforeTx(block, i) ==
  ProcessTxs(cfg, winner_bump(expire_nodes(cfg, cull_events(St, CullHeight(block.height)),
                                           block.height), block),
             SubSeq(block.txs, 1, i - 1), block, 0).st

\* transaction i of the block is a registration accepted for a key that is
\* in the registry, and no later transaction of the block names the key
ReRegisters(block, i, pre) ==
  /\ Has(pre.infos, block.txs[i].sn_key)
  /\ process_registration_tx(cfg, pre, block.txs[i], block.timestamp, block.height, i - 1).r
  /\ \A j \in (i + 1)..Len(block.txs) : block.txs[j].sn_key # block.txs[i].sn_key
  /\ ~Deregisters(block, block.txs[i].sn_key)

\* C12: when a registration for an already registered pubkey is accepted at
\* block height H >= old.registration_height + lock_blocks (hf >= 5), then
\* after block H the entry carries the new registration (registration_height
\* = H, the new contributors) and the last_reward_block_height and
\* last_reward_transaction_index of the old entry.
C12_CursorPreserved ==
  [][(IsAddStep /\ HardFork(cfg, AddedBlock.height) >= 5) =>
       \A i \in 1..Len(AddedBlock.txs) :
         LET pre == BeforeTx(AddedBlock, i)
             tx == AddedBlock.txs[i]
             old == pre.infos[tx.sn_key]
         IN ReRegisters(AddedBlock, i, pre) =>
              /\ AddedBlock.height >= old.registration_height
                                        + get_staking_requirement_lock_blocks
              /\ KeepsRegistration(tx.sn_key, AddedBlock.height)
              /\ [j \in 1..Len(tx.addresses) |->
                    m_service_nodes_infos'[tx.sn_key].contributors[j].address] = tx.addresses
              /\ m_service_nodes_infos'[tx.sn_key].last_reward_block_height
                   = old.last_reward_block_height
              /\ m_service_nodes_infos'[tx.sn_key].last_reward_transaction_index
                   = old.last_reward_transaction_index]_vars

\* no transaction after transaction i of the block names key k, and the
\* block does not deregister k
LastFor(block, i, k) ==
  /\ \A j \in (i + 1)..Len(block.txs) : block.txs[j].sn_key # k
  /\ ~Deregisters(block, k)

\* C13: a registration transaction for a pubkey that is already in the
\* registry replaces the existing entry only if hf >= 5 and block_height >=
\* old.registration_height + lock_blocks; in every other case
\* process_registration_tx returns false and the existing entry is not
\* replaced (a block below hard fork 5 changes no entry at all).
C13_ReplacedOnlyInGrace ==
  [][IsAddStep =>
       /\ HardFork(cfg, AddedBlock.height) < 5 =>
            m_service_nodes_infos' = m_service_nodes_infos
       /\ HardFork(cfg, AddedBlock.height) >= 5 =>
            \A i \in 1..Len(AddedBlock.txs) :
              LET pre == BeforeTx(AddedBlock, i)
                  tx == AddedBlock.txs[i]
                  k == tx.sn_key
                  old == pre.infos[k]
                  grace == AddedBlock.height >= old.registration_height
                                                 + get_staking_requirement_lock_blocks
                  reg == process_registration_tx(cfg, pre, tx, AddedBlock.timestamp,
                                                 AddedBlock.height, i - 1)
              IN (tx.has_reg /\ Has(pre.infos, k)) =>
                   /\ reg.r => grace
                   /\ ~grace =>
                        /\ ~reg.r
                        /\ reg.st = pre
                        /\ LastFor(AddedBlock, i, k) =>
                             /\ KeepsRegistration(k, old.registration_height)
                             /\ m_service_nodes_infos'[k].operator_address
                                  = old.operator_address
                             /\ m_service_nodes_infos'[k].portions_for_operator
                                  = old.portions_for_operator]_vars

\* the last block carried two registrations of one key: the first was
\* accepted and the second, in the same block, was turned down
C13_Witness ==
  /\ last.op = "add"
  /\ last.hf >= 5
  /\ Len(chain[Len(chain)].txs) = 2
  /\ \A i \in 1..2 : /\ chain[Len(chain)].txs[i].has_reg
                       /\ chain[Len(chain)].txs[i].sn_key = "k1"
  /\ "k1" \in DOMAIN m_service_nodes_infos
  /\ m_service_nodes_infos["k1"].registration_height = last.h
  /\ m_service_nodes_infos["k1"].operator_address = "a1"

(***************************************************************************)
(* Properties of the quorum states                                         *)
(***************************************************************************)
\* the keys of the registry that take part in quorums
QuorumEligible ==
  {k \in DOMAIN m_service_nodes_infos :
     \/ is_fully_funded(m_service_nodes_infos[k])
     \/ (HardFork(cfg, m_height) > 9 /\ is_valid(m_service_nodes_infos[k]))}

DuplicateFree(s) == \A i, j \in 1..Len(s) : s[i] = s[j] => i = j

\* C14: the quorum state stored for the block of height H just applied has,
\* with N the number of eligible keys of the registry after the block,
\* |quorum| = min(N, QUORUM_SIZE) and |nodes_to_test| = max(min(MIN_NODES_TO_TEST,
\* N - |quorum|), (N - |quorum|) / NTH_OF_NETWORK); quorum and nodes_to_test are
\* duplicate-free, disjoint and hold eligible keys only.
C14_QuorumShape ==
  (last.op = "add" /\ last.hf >= 5) =>
    /\ last.h \in DOMAIN m_quorum_states
    /\ LET state == m_quorum_states[last.h]
           N == Cardinality(QuorumEligible)
           nq == Len(state.quorum_nodes)
           nt == Len(state.nodes_to_test)
       IN /\ nq = Min(N, QUORUM_SIZE)
          /\ nt = Max(Min(MIN_NODES_TO_TEST, N - nq),
                      (N - nq) \div NTH_OF_THE_NETWORK_TO_TEST)
          /\ DuplicateFree(state.quorum_nodes \o state.nodes_to_test)
          /\ SeqToSet(state.quorum_nodes \o state.nodes_to_test) \subseteq QuorumEligible

\* a block above the fork left five eligible nodes: the share of the network exceeds the
\* minimum number of nodes to test
C14_Witness ==
  /\ last.op = "add"
  /\ last.hf >= 5
  /\ last.h > cfg.fork
  /\ Cardinality(QuorumEligible) = 5
  /\ Cardinality(DOMAIN m_service_nodes_infos) = 5
  /\ Len(m_quorum_states[last.h].nodes_to_test) = 2

\* 6 * deregister_lifetime under version hf
QuorumLifetime(hf) ==
  6 * (IF hf >= 8 THEN DEREGISTER_LIFETIME_BY_HEIGHT_V2 ELSE DEREGISTER_LIFETIME_BY_HEIGHT)

\* the last block process_block has seen when a detach returns: the old tip,
\* or the block below the detach height when init() scanned the chain again
LastProcessed == IF last.failed THEN last.h - 1 ELSE last.h + Len(redo.blocks) - 1

\* C15: with H the height of the last processed block and L the deregister
\* lifetime in force, every cached quorum height q has H - 6L <= q <= H; after
\* blockchain_detached(h) no cached quorum height is >= h.
C15_QuorumWindow ==
  /\ last.op = "add" =>
       \A q \in DOMAIN m_quorum_states :
         last.h - QuorumLifetime(last.hf) <= q /\ q <= last.h
  /\ last.op = "detach" =>
       \A q \in DOMAIN m_quorum_states :
         /\ q < last.h
         /\ LastProcessed - QuorumLifetime(HardFork(cfg, LastProcessed)) <= q
         /\ q <= LastProcessed

\* after a detach, the chain has grown until the oldest quorum state was
\* evicted and the cache holds the full window
C15_Witness ==
  /\ last.op = "add"
  /\ ndetach > 0
  /\ last.h >= cfg.fork + QuorumLifetime(last.hf) + 1
  /\ DOMAIN m_quorum_states = (last.h - QuorumLifetime(last.hf))..last.h

\* C16: for a fixed height, registry and block hash, a second run of the
\* quorum selection gives the (quorum, nodes_to_test) the first run stored,
\* whatever the order in which the second run walks the registry map.
C16_QuorumDeterministic ==
  last.op = "requorum" => last.rerun = m_quorum_states[last.h]

\* a second node has selected the quorum among five registered nodes, not all
\* of them eligible
C16_Witness ==
  /\ last.op = "requorum"
  /\ Cardinality(DOMAIN m_service_nodes_infos) = 5
  /\ Cardinality(QuorumEligible) = 3
  /\ Len(last.rerun.quorum_nodes) = 1
  /\ Len(last.rerun.nodes_to_test) = 1

(***************************************************************************)
(* Properties of the reward split                                          *)
(***************************************************************************)
\* C17 as stated: service_node_total is 0 when hf < SERVICE_NODE_VERSION,
\* floor(adjusted / 2) when SERVICE_NODE_VERSION <= hf <= 11 and
\* floor(adjusted * 3 / 4) when hf >= 12, for every adjusted_base_reward.
C17_ThreeQuartersFloor ==
  (coinbase.op = "reward" /\ coinbase.ok) =>
    coinbase.parts.service_node_total =
      (IF coinbase.hf < SERVICE_NODE_VERSION THEN 0
       ELSE IF coinbase.hf <= 11 THEN coinbase.parts.adjusted_base_reward \div 2
       ELSE (coinbase.parts.adjusted_base_reward * 3) \div 4)

\* C17, amended: when coins have been generated before, service_node_total is
\* 0 when hf < SERVICE_NODE_VERSION, floor(adjusted / 2) when
\* SERVICE_NODE_VERSION <= hf <= 11 and 3 * floor(adjusted / 4) when hf >= 12;
\* for the first block of the chain (no coins generated yet) it is 0.
C17_QuarterFloorTimesThree ==
  (coinbase.op = "reward" /\ coinbase.ok) =>
    coinbase.parts.service_node_total =
      (IF AlreadyGenerated(coinbase.height) = 0 THEN 0
       ELSE IF coinbase.hf < SERVICE_NODE_VERSION THEN 0
       ELSE IF coinbase.hf <= 11 THEN coinbase.parts.adjusted_base_reward \div 2
       ELSE 3 * (coinbase.parts.adjusted_base_reward \div 4))

\* the split was computed under version 12 or later for an adjusted reward
\* that is not a multiple of 4
C17_Witness ==
  /\ coinbase.op = "reward"
  /\ coinbase.ok
  /\ coinbase.hf >= 12
  /\ coinbase.height > 0
  /\ coinbase.parts.governance > 0
  /\ coinbase.parts.adjusted_base_reward = 7
  /\ coinbase.parts.service_node_total = 3

(***************************************************************************)
(* Properties of the transaction pool                                      *)
(***************************************************************************)
\* the step is a recorded call of add_tx
IsAddTxStep == nadd' = nadd + 1 /\ tvc'.op = "add_tx"

\* a key image of the transaction is held in the index by another id
ClaimedByOther(images, id) ==
  \E i \in 1..Len(TxOf(id).vin) :
     /\ TxOf(id).vin[i] \in DOMAIN images
     /\ images[TxOf(id).vin[i]] \ {id} # {}

\* the step left the table, the index and the ordering container as they were
InsertsNothing ==
  /\ DOMAIN txpool' = DOMAIN txpool
  /\ m_spent_key_images' = m_spent_key_images
  /\ m_txs_by_fee_and_receive_time' = m_txs_by_fee_and_receive_time

\* the ids of a key image that are not held as kept_by_block
NotKeptByBlock(key_im) ==
  {id \in m_spent_key_images[key_im] :
     id \notin DOMAIN txpool \/ ~kept_by_block(txpool[id])}

\* every key image of the index has an id, and at most one that was not
\* inserted as kept_by_block
OneIdPerKeyImage ==
  \A key_im \in DOMAIN m_spent_key_images :
     /\ m_spent_key_images[key_im] # {}
     /\ Cardinality(NotKeptByBlock(key_im)) <= 1

\* a check that comes before the key-image check has rejected the call
RejectedEarlier(id, flags) ==
  \/ TxOf(id).version = 0
  \/ id \in m_timed_out_transactions
  \/ flags.m_fee_too_low /\ ~flags.m_double_spend
  \/ flags.m_too_big

SameDeregistration(a, b) ==
  /\ a # b
  /\ is_deregister_tx(TxOf(a)) /\ is_deregister_tx(TxOf(b))
  /\ TxOf(a).block_height = TxOf(b).block_height
  /\ TxOf(a).service_node_index = TxOf(b).service_node_index

KeyImagesOf(id) == {TxOf(id).vin[i] : i \in 1..Len(TxOf(id).vin)}

\* C20: the key images of every transaction of the block template are
\* disjoint from the key images of all transactions selected before it
C20_TemplateKeyImagesDisjoint ==
  bl.op = "fill" =>
    \A j \in 1..Len(bl.tx_hashes) : \A i \in 1..(j - 1) :
       KeyImagesOf(bl.tx_hashes[i]) \cap KeyImagesOf(bl.tx_hashes[j]) = {}

\* a template was filled from a pool that holds, ready for a block, a
\* transaction sharing a key image with one selected, and left it out
C20_Witness ==
  /\ bl.op = "fill"
  /\ bl.ok
  /\ \E i \in 1..Len(bl.tx_hashes) : \E id \in DOMAIN txpool :
        /\ \A j \in 1..Len(bl.tx_hashes) : bl.tx_hashes[j] # id
        /\ matches(txpool[id].relay_method, "legacy")
        /\ bl.total_weight + txpool[id].weight <= bl.max_total_weight
        /\ KeyImagesOf(bl.tx_hashes[i]) \cap KeyImagesOf(id) # {}

\* C23: once remove_stuck_transactions has removed an id for its age, every
\* later add_tx of that id with a relay method other than block returns
\* false with verification_failed set and inserts nothing; the id comes back
\* into the pool only as a transaction kept by a block
C23_TimedOutStaysOut ==
  /\ [][IsAddTxStep /\ tvc'.tx_relay # "block" /\ tvc'.id \in m_timed_out_transactions
        => ~tvc'.ret /\ tvc'.flags.m_verification_failed /\ InsertsNothing]_vars
  /\ [][\A id \in m_timed_out_transactions :
          id \notin DOMAIN txpool /\ id \in DOMAIN txpool'
            => nadd' = nadd + 1 /\ kept_by_block(txpool'[id])]_vars
  /\ [][m_timed_out_transactions \subseteq m_timed_out_transactions']_vars

\* a transaction swept for its age was offered again by a peer, passing
\* every other check, and turned away
C23_Witness ==
  /\ tvc.op = "add_tx"
  /\ tvc.tx_relay # "block"
  /\ tvc.id \in m_timed_out_transactions
  /\ tvc.id \notin DOMAIN txpool
  /\ TxOf(tvc.id).version # 0
  /\ ~tvc.ret
  /\ tvc.flags = FailedTvc

\* C24: add_tx returns false with fee_too_low set and inserts nothing
\* whenever get_tx_miner_fee fails or check_fee refuses the fee, and a call
\* that returns true leaves fee_too_low, too_big, double_spend, invalid_input
\* and invalid_output unset
C24_FeeFailureRejected ==
  [][IsAddTxStep =>
       /\ (~tvc'.env.miner_fee_ok \/ ~tvc'.env.fee_ok)
            => ~tvc'.ret /\ tvc'.flags.m_fee_too_low /\ InsertsNothing
       /\ tvc'.ret
            => /\ ~tvc'.flags.m_fee_too_low
               /\ ~tvc'.flags.m_too_big
               /\ ~tvc'.flags.m_double_spend
               /\ ~tvc'.flags.m_invalid_input
               /\ ~tvc'.flags.m_invalid_output]_vars

\* get_tx_miner_fee failed for a transaction that add_tx then stored
C24_StoredWithoutFee ==
  /\ tvc.op = "add_tx"
  /\ ~tvc.env.miner_fee_ok
  /\ tvc.ret
  /\ tvc.flags.m_fee_too_low
  /\ tvc.id \in DOMAIN txpool

\* the call of the step gets as far as check_tx_inputs: none of the checks
\* that come first rejects it in the pool the step starts from
ReachesCheckTxInputs(call) ==
  /\ TxOf(call.id).version # 0
  /\ call.tx_relay # "block" =>
       /\ call.id \notin m_timed_out_transactions
       /\ is_transfer(TxOf(call.id)) => call.env.fee_ok
       /\ ~have_tx_keyimges_as_spent(PoolSt, TxOf(call.id), call.id)
       /\ ~have_deregister_tx_already(PoolSt, TxOf(call.id), include_sensitive)
  /\ (call.tx_relay # "block" \/ call.version >= HF_VERSION_PER_BYTE_FEE) =>
       TxOf(call.id).weight <= get_transaction_weight_limit(call.version)
  /\ call.env.outputs_ok

\* the transaction of the call is in the table, the ordering container and,
\* for each of its key images, the index
InsertedEverywhere(id) ==
  /\ id \in DOMAIN txpool'
  /\ \E e \in m_txs_by_fee_and_receive_time' : e.id = id
  /\ \A key_im \in KeyImagesOf(id) :
       key_im \in DOMAIN m_spent_key_images' /\ id \in m_spent_key_images'[key_im]

PoolUnchanged ==
  UNCHANGED <<txpool, m_spent_key_images, m_txs_by_fee_and_receive_time,
              m_timed_out_transactions, m_txpool_weight>>

\* C25 as stated: when check_tx_inputs fails, a transaction submitted with
\* relay method block is still inserted into the table, the ordering
\* container and the key-image index, verification_impossible and
\* added_to_pool are set and add_tx returns true; with any other relay method
\* the call is rejected with invalid_input and the pool is unchanged
C25_KeptDespiteInputs ==
  [][IsAddTxStep /\ ReachesCheckTxInputs(tvc') /\ ~tvc'.env.inputs_ok =>
       IF tvc'.tx_relay = "block"
       THEN /\ tvc'.ret
            /\ tvc'.flags.m_verification_impossible
            /\ tvc'.flags.m_added_to_pool
            /\ InsertedEverywhere(tvc'.id)
       ELSE /\ ~tvc'.ret
            /\ tvc'.flags.m_invalid_input
            /\ PoolUnchanged]_vars

\* C25 amended: the same for a transaction whose id the pool does not hold
\* when it is submitted with relay method block
C25_NewKeptDespiteInputs ==
  [][IsAddTxStep /\ ReachesCheckTxInputs(tvc') /\ ~tvc'.env.inputs_ok =>
       IF tvc'.tx_relay = "block"
       THEN tvc'.id \notin DOMAIN txpool =>
              /\ tvc'.ret
              /\ tvc'.flags.m_verification_impossible
              /\ tvc'.flags.m_added_to_pool
              /\ InsertedEverywhere(tvc'.id)
       ELSE /\ ~tvc'.ret
            /\ tvc'.flags.m_invalid_input
            /\ PoolUnchanged]_vars

\* a transaction of a popped block whose inputs could not be verified is in
\* the pool, beside one a peer offered
C25_Witness ==
  /\ tvc.op = "add_tx"
  /\ tvc.tx_relay = "block"
  /\ ~tvc.env.inputs_ok
  /\ tvc.ret
  /\ tvc.flags.m_verification_impossible
  /\ tvc.id \in DOMAIN txpool
  /\ KeyImagesOf(tvc.id) # {}
  /\ \E other \in DOMAIN txpool : other # tvc.id /\ ~kept_by_block(txpool[other])

\* the entries of the ordering container without their receive times, and
\* how many entries an id has
Timeless(entries) ==
  {[is_deregister |-> e.is_deregister, rate |-> e.rate, id |-> e.id] : e \in entries}
EntriesOf(entries, id) == Cardinality({e \in entries : e.id = id})

\* two pools hold the same transactions, weight, ordering entries and key
\* images; receive times are not compared
SameModuloTime(P, Q) ==
  /\ DOMAIN P.txpool = DOMAIN Q.txpool
  /\ P.m_txpool_weight = Q.m_txpool_weight
  /\ Timeless(P.m_txs_by_fee_and_receive_time) = Timeless(Q.m_txs_by_fee_and_receive_time)
  /\ \A id \in DOMAIN P.txpool :
       EntriesOf(P.m_txs_by_fee_and_receive_time, id)
         = EntriesOf(Q.m_txs_by_fee_and_receive_time, id)
  /\ P.m_spent_key_images = Q.m_spent_key_images

\* C26: for a transaction add_tx admits, take_tx followed by add_tx with the
\* same arguments succeeds and leaves the pool the first admission left: the
\* same stored transactions, pool weight, ordering entries and key-image
\* index, receive times apart
C26_TakeAddRoundTrip ==
  tvc.op = "round_trip" =>
    /\ tvc.taken
    /\ tvc.ret
    /\ SameModuloTime(tvc.first, PoolSt)

\* the round trip of a transaction that shares the pool with another one
C26_Witness ==
  /\ tvc.op = "round_trip"
  /\ tvc.ret
  /\ tvc.id \in DOMAIN txpool
  /\ KeyImagesOf(tvc.id) # {}
  /\ \E other \in DOMAIN txpool : other # tvc.id

(***************************************************************************)
(* Properties of prune                                                     *)
(***************************************************************************)
IsPruneStep == tvc.op = "none" /\ tvc'.op = "prune"
PruneTarget(bytes) == IF bytes = 0 THEN DEFAULT_TXPOOL_MAX_WEIGHT ELSE bytes

\* what prune must not remove: a transaction kept by a block, and a
\* deregistration received within the deregister lifetime
Protected(meta, id, time) ==
  \/ kept_by_block(meta)
  \/ /\ is_deregister_tx(TxOf(id))
     /\ meta.receive_time >= time - MEMPOOL_PRUNE_DEREGISTER_LIFETIME

\* C22: after prune(target) either the pool weight is at most the target or
\* every transaction left in the pool is protected (kept by a block, or a
\* deregistration received within the deregister lifetime), and no protected
\* transaction was removed
C22_PruneToTargetOrProtected ==
  [][IsPruneStep =>
       /\ \/ m_txpool_weight' <= PruneTarget(tvc'.bytes)
          \/ \A id \in DOMAIN txpool' : Protected(txpool'[id], id, now)
       /\ \A id \in DOMAIN txpool \ DOMAIN txpool' : ~Protected(txpool[id], id, now)]_vars

\* the weight and the fees of the first n transactions of the template, and
\* the coinbase a block of exactly these transactions pays its miner
SelectedWeight(n) == SumSeq([i \in 1..n |-> txpool[bl.tx_hashes[i]]], "weight")
SelectedFee(n) == SumSeq([i \in 1..n |-> txpool[bl.tx_hashes[i]]], "fee")
SelectedCoinbase(n) ==
  TemplateReward([curve |-> bl.curve, version |-> bl.version], SelectedWeight(n)).base_miner
    + SelectedFee(n)

\* C21: the total weight of the transactions fill_block_template selects
\* never exceeds max_total_weight (2 * median - reserved from version 5,
\* 1.3 * median - reserved before), and from SERVICE_NODE_VERSION on every
\* selected transaction leaves a coinbase not lower than the best coinbase
\* before it
C21_TemplateWithinWeightAndReward ==
  (bl.op = "fill" /\ bl.ok) =>
    /\ SelectedWeight(Len(bl.tx_hashes)) <= bl.max_total_weight
    /\ bl.total_weight = SelectedWeight(Len(bl.tx_hashes))
    /\ bl.version >= SERVICE_NODE_VERSION =>
         \A n \in 1..Len(bl.tx_hashes) : SelectedCoinbase(n) >= SelectedCoinbase(n - 1)

\* a template took one transaction and left out another that was ready and
\* relayed: one that no longer fits, or one that fits and would lower the
\* coinbase
C21_Witness ==
  /\ bl.op = "fill"
  /\ bl.ok
  /\ bl.version >= SERVICE_NODE_VERSION
  /\ Len(bl.tx_hashes) = 1
  /\ \E id \in DOMAIN txpool :
        /\ bl.tx_hashes[1] # id
        /\ matches(txpool[id].relay_method, "legacy")
        /\ KeyImagesOf(bl.tx_hashes[1]) \cap KeyImagesOf(id) = {}
        /\ bl.total_weight + txpool[id].weight <= bl.max_total_weight
        /\ TemplateReward([curve |-> bl.curve, version |-> bl.version],
                          bl.total_weight + txpool[id].weight).base_miner
             + SelectedFee(1) + txpool[id].fee < SelectedCoinbase(1)

(***************************************************************************)
(* Properties of store() and load()                                        *)
(***************************************************************************)
\* the last step ran store() with the chain tip at hard fork 5 or later
Stored5 == \/ last.op = "add" /\ last.hf >= 5
           \/ last.op = "detach" /\ HardFork(cfg, last.h - 1) >= 5

KindsOf(events) == {events[i].type : i \in 1..Len(events)}

\* C27: with a database attached and hf >= 5, load() after store() yields the
\* registry that was stored: the same m_height, the same map from pubkey to
\* service_node_info, the same cached quorum states, and the same journal
\* events in the same order with the same variant kinds
C27_StoreLoadRoundTrip ==
  Stored5 => load(cfg, m_db) = [ok |-> TRUE,
                                 st |-> [height |-> m_height,
                                         infos |-> m_service_nodes_infos,
                                         quorums |-> m_quorum_states,
                                         events |-> m_rollback_events]]

\* a stored registry with a node, a cached quorum state and a journal that
\* holds a change and a new event, read back equal
C27_Witness ==
  /\ Stored5
  /\ DOMAIN m_service_nodes_infos # {}
  /\ DOMAIN m_quorum_states # {}
  /\ {"change", "new"} \subseteq KindsOf(m_rollback_events)
  /\ load(cfg, m_db).st = St

(***************************************************************************)
(* Properties of the cursor at block_added                                 *)
(***************************************************************************)
\* this step is block_added of a block at hard fork 5 or later
IsBlockAdded5 == chain' # chain /\ last'.op = "add" /\ last'.hf >= 5

\* block_added of a block whose height is not m_height changes nothing
C30_MismatchChangesNothing ==
  [][(IsBlockAdded5 /\ last'.h # m_height) =>
       UNCHANGED <<m_service_nodes_infos, m_rollback_events, m_height, m_quorum_states>>]_vars

\* every block_added finds m_height on the height of its block
C30_CursorOnBlock == [][IsBlockAdded5 => last'.h = m_height]_vars

\* C30: block_added of a block (hf >= 5) whose height differs from m_height is
\* fatal and neither advances m_height nor modifies the map, the journal or
\* the quorum cache; and when blocks are applied in chain order, with
\* blockchain_detached(h) before blocks are applied again from height h,
\* m_height equals the block's height at every block_added
C30_HeightMismatchFatal == C30_MismatchChangesNothing /\ C30_CursorOnBlock

(***************************************************************************)
(* Properties of the registry read from other threads                      *)
(***************************************************************************)
\* what a call has read is the registry as it was between two blocks
OneMoment(seen) == \E m \in moments : \A member \in seen.read : seen[member] = m[member]

\* C28: while one thread runs block_added, every public read on another thread
\* (get_service_nodes_pubkeys, is_service_node, select_winner,
\* get_winner_addresses_and_portions, validate_miner_tx, get_quorum_state,
\* get_service_node_list_state, store) observes the map, the journal and
\* m_height of one single moment between two blocks
C28_ReadsOneMoment == \A t \in Threads : OneMoment(pc[t].seen)

(***************************************************************************)
(* Properties of the locks of the pool                                     *)
(***************************************************************************)
Holds(t, l) == lock[l].owner = t
Waiting(t, l) ==
  Running(t) /\ Instr(t).do = "lock" /\ Instr(t).on = l /\ lock[l].owner \notin {"none", t}

\* some threads each wait for a mutex that another of them holds
Deadlocked ==
  \E S \in SUBSET Threads :
    /\ S # {}
    /\ \A t \in S : \E l \in DOMAIN lock : Waiting(t, l) /\ lock[l].owner \in S

\* C29: a pool operation that holds the blockchain lock holds the pool lock
\* (m_transactions_lock), taken before it, and none waits for the pool lock
\* while it holds the blockchain lock; no interleaving of add_tx, prune,
\* take_tx, remove_stuck_transactions, set_relayed,
\* get_relayable_transactions, fill_block_template and validate on different
\* threads reaches a deadlock
C29_PoolLockFirstNoDeadlock ==
  /\ \A t \in Threads :
       /\ Holds(t, "m_blockchain") => Holds(t, "m_transactions_lock")
       /\ Waiting(t, "m_transactions_lock") => ~Holds(t, "m_blockchain")
  /\ ~Deadlocked

\* one thread writes the pool inside both critical regions while the other
\* waits for the pool lock
C29_Witness ==
  \E t, u \in Threads :
    /\ Holds(t, "m_transactions_lock") /\ Holds(t, "m_blockchain")
    /\ Running(t) /\ Instr(t).do = "body"
    /\ txpool # EmptyTxPool
    /\ Waiting(u, "m_transactions_lock")

(***************************************************************************)
(* Properties of the transaction handlers                                  *)
(***************************************************************************)
\* process_registration_tx as transaction i of the added block meets it
RegistrationOf(block, i) ==
  process_registration_tx(cfg, BeforeTx(block, i), block.txs[i], block.timestamp,
                          block.height, i - 1)

\* no transaction of the block is registered, and none finds its key in the
\* registry for a contribution
AllTurnedDown(block) ==
  \A i \in 1..Len(block.txs) :
    /\ ~RegistrationOf(block, i).r
    /\ ~Has(BeforeTx(block, i).infos, block.txs[i].sn_key)

\* C31: whenever process_registration_tx returns false, whatever the check
\* that failed, the registry map and the journal are as they were before the
\* call; a block whose registrations are all turned down leaves the map and
\* the journal that the block without transactions leaves
C31_RejectedRegistrationChangesNothing ==
  [][(IsAddStep /\ HardFork(cfg, AddedBlock.height) >= 5) =>
       /\ \A i \in 1..Len(AddedBlock.txs) :
            ~RegistrationOf(AddedBlock, i).r =>
               /\ RegistrationOf(AddedBlock, i).st.infos = BeforeTx(AddedBlock, i).infos
               /\ RegistrationOf(AddedBlock, i).st.events = BeforeTx(AddedBlock, i).events
       /\ AllTurnedDown(AddedBlock) =>
            \E bare \in {process_block(cfg, St, [AddedBlock EXCEPT !.txs = <<>>])} :
               /\ m_service_nodes_infos' = bare.infos
               /\ m_rollback_events' = bare.events]_vars

\* the last block registered k1 and then turned a second registration of k1
\* down: the journal holds one event for the new key
C31_Witness ==
  /\ last.op = "add"
  /\ last.hf >= 5
  /\ Len(chain[Len(chain)].txs) = 2
  /\ chain[Len(chain)].txs[2] = GoodReg(last.hf)
  /\ "k1" \in DOMAIN m_service_nodes_infos
  /\ Cardinality({i \in 1..Len(m_rollback_events) :
                     m_rollback_events[i] = rollback_new(last.h, "k1")}) = 1

\* the registry process_contribution_tx meets as transaction i of the block,
\* and the one it leaves
BeforeContribution(block, i) == RegistrationOf(block, i).st
AfterContribution(block, i) ==
  process_contribution_tx(cfg, BeforeContribution(block, i), block.txs[i], block.height,
                          i - 1)

\* what the claim names of transaction i, for the entry info it pays into:
\* the contributor and amount, the limit and the minimum
Contributed(block, i, info) ==
  get_contribution(block.txs[i],
                   IF HardFork(cfg, block.height) >= 12 THEN info.registration_height
                   ELSE block.height)
Listed(block, i, info) ==
  \E j \in 1..Len(info.contributors) :
     info.contributors[j].address = Contributed(block, i, info).address
LimitReached(block, info) ==
  Len(info.contributors) >= (IF HardFork(cfg, block.height) > 11
                             THEN MAX_NUMBER_OF_CONTRIBUTORS_V3
                             ELSE IF HardFork(cfg, block.height) > 9
                             THEN MAX_NUMBER_OF_CONTRIBUTORS_V2
                             ELSE MAX_NUMBER_OF_CONTRIBUTORS)
BelowMinimum(block, i, info) ==
  Contributed(block, i, info).transferred
    < get_min_node_contribution(HardFork(cfg, block.height), info.staking_requirement,
                                info.total_reserved)

\* the entry of k as the block leaves it has the amounts, reservations, totals
\* and reward cursor of info
SameStake(k, info) ==
  /\ k \in DOMAIN m_service_nodes_infos'
  /\ m_service_nodes_infos'[k].contributors = info.contributors
  /\ m_service_nodes_infos'[k].total_contributed = info.total_contributed
  /\ m_service_nodes_infos'[k].total_reserved = info.total_reserved
  /\ m_service_nodes_infos'[k].last_reward_block_height = info.last_reward_block_height
  /\ m_service_nodes_infos'[k].last_reward_transaction_index
       = info.last_reward_transaction_index

\* transaction i of the added block is turned down by process_contribution_tx:
\* map and journal stay, and the entry comes out of the block as it was when i
\* is the block's last transaction
TurnedDown(i) ==
  /\ AfterContribution(AddedBlock, i).infos = BeforeContribution(AddedBlock, i).infos
  /\ AfterContribution(AddedBlock, i).events = BeforeContribution(AddedBlock, i).events
  /\ i = Len(AddedBlock.txs) =>
       SameStake(AddedBlock.txs[i].sn_key,
                 BeforeContribution(AddedBlock, i).infos[AddedBlock.txs[i].sn_key])

\* C32 as stated: a contribution is turned down whenever the contributor
\* limit is reached or the amount is below get_min_contribution, from a listed
\* address as well as from a new one
C32_LimitOrMinimumRejects ==
  [][(IsAddStep /\ HardFork(cfg, AddedBlock.height) >= 5) =>
       \A i \in 1..Len(AddedBlock.txs) :
         LET pre == BeforeContribution(AddedBlock, i)
             k == AddedBlock.txs[i].sn_key
         IN (/\ Has(pre.infos, k)
             /\ Contributed(AddedBlock, i, pre.infos[k]).ok
             /\ \/ LimitReached(AddedBlock, pre.infos[k])
                \/ BelowMinimum(AddedBlock, i, pre.infos[k]))
            => TurnedDown(i)]_vars

\* C32, amended: a contribution from an address that is not among the node's
\* contributors is turned down, entry and journal unchanged, whenever the
\* contributor limit is reached or the amount is below get_min_contribution;
\* a contribution from a listed address is held against neither: unless the
\* node is fully funded or a fee or amount check of hf >= 12 fails, it pushes
\* a Change event with the entry as it was and moves the reward cursor to the
\* transaction
C32_NewAddressLimitOrMinimumRejects ==
  [][(IsAddStep /\ HardFork(cfg, AddedBlock.height) >= 5) =>
       \A i \in 1..Len(AddedBlock.txs) :
         LET pre == BeforeContribution(AddedBlock, i)
             post == AfterContribution(AddedBlock, i)
             tx == AddedBlock.txs[i]
             k == tx.sn_key
             hf == HardFork(cfg, AddedBlock.height)
             c == Contributed(AddedBlock, i, pre.infos[k])
         IN (Has(pre.infos, k) /\ c.ok) =>
              /\ (/\ ~Listed(AddedBlock, i, pre.infos[k])
                  /\ \/ LimitReached(AddedBlock, pre.infos[k])
                     \/ BelowMinimum(AddedBlock, i, pre.infos[k]))
                 => TurnedDown(i)
              /\ (/\ Listed(AddedBlock, i, pre.infos[k])
                  /\ ~is_fully_funded(pre.infos[k])
                  /\ hf >= 12 => /\ tx.burned_amount >= Sub64(tx.total_fee, tx.miner_fee)
                                 /\ Sub64(tx.total_fee, tx.miner_fee)
                                      >= (IF hf < 16 THEN c.transferred \div 1000 ELSE 1)
                                 /\ c.transferred >= MIN_POOL_STAKERS_V12 * COIN
                  /\ (hf >= 12 /\ hf < 17) => c.transferred <= MAX_POOL_STAKERS_V12 * COIN)
                 => /\ post.events = Append(pre.events,
                                            rollback_change(AddedBlock.height, k, pre.infos[k]))
                    /\ post.infos[k].last_reward_block_height = AddedBlock.height
                    /\ post.infos[k].last_reward_transaction_index = i - 1]_vars

\* the last block registered k1 for a1 and a2 and turned a contribution of a3
\* down: k1 has its two contributors and nothing of a3
C32_Witness ==
  /\ last.op = "add"
  /\ last.hf >= 5
  /\ Len(chain[Len(chain)].txs) = 2
  /\ chain[Len(chain)].txs[1] = GoodReg(last.hf)
  /\ chain[Len(chain)].txs[2] = ContribTx(TxType(last.hf), "k1", "a3", 2, OkUnlock)
  /\ "k1" \in DOMAIN m_service_nodes_infos
  /\ Len(m_service_nodes_infos["k1"].contributors) = 2
  /\ m_service_nodes_infos["k1"].total_contributed = 2

\* process_deregistration_tx as transaction i of the added block meets it
DeregistrationOf(block, i) ==
  process_deregistration_tx(cfg, BeforeTx(block, i), block.txs[i], block.height)

\* the node transaction i votes off: nodes_to_test[J] of the quorum state
\* cached for B, null_pkey when there is no such state or no such place
VotedOff(block, i) ==
  LET B == block.txs[i].dereg_height
      J == block.txs[i].dereg_index
  IN IF B \in DOMAIN m_quorum_states /\ J < Len(m_quorum_states[B].nodes_to_test)
     THEN m_quorum_states[B].nodes_to_test[J + 1]
     ELSE null_pkey

\* C33: process_deregistration_tx for a transaction that names (B, J) returns
\* false and changes neither map nor journal when no quorum state is cached
\* for B, when J is no place of its nodes_to_test, or when the node of that
\* place is not in the registry; otherwise it removes that node's entry and
\* no other, leaves every other entry as it was and pushes one Change event
\* that holds the removed entry and the height of the block
C33_DeregistersNamedNodeOnly ==
  [][(IsAddStep /\ HardFork(cfg, AddedBlock.height) >= 5) =>
       \A i \in 1..Len(AddedBlock.txs) :
         LET pre == BeforeTx(AddedBlock, i)
             res == DeregistrationOf(AddedBlock, i)
             key == VotedOff(AddedBlock, i)
         IN AddedBlock.txs[i].type = "deregister" =>
              IF key = null_pkey \/ key \notin DOMAIN pre.infos
              THEN /\ ~res.r
                   /\ res.st.infos = pre.infos
                   /\ res.st.events = pre.events
              ELSE /\ res.r
                   /\ DOMAIN res.st.infos = DOMAIN pre.infos \ {key}
                   /\ \A k \in DOMAIN res.st.infos : res.st.infos[k] = pre.infos[k]
                   /\ res.st.events
                        = Append(pre.events,
                                 rollback_change(AddedBlock.height, key, pre.infos[key]))
                   /\ key \notin DOMAIN m_service_nodes_infos'
                   /\ \E e \in 1..Len(m_rollback_events') :
                        m_rollback_events'[e]
                          = rollback_change(AddedBlock.height, key, pre.infos[key])]_vars

\* the last block carried the same deregistration twice: the first removed
\* the node, the second found it gone, and the journal holds the entry once
C33_Witness ==
  /\ last.op = "add"
  /\ last.hf >= 5
  /\ Len(chain[Len(chain)].txs) = 2
  /\ chain[Len(chain)].txs[1] = chain[Len(chain)].txs[2]
  /\ chain[Len(chain)].txs[1].type = "deregister"
  /\ Cardinality(DOMAIN m_service_nodes_infos) = Len(QuorumKeys) - 1
  /\ Cardinality({e \in 1..Len(m_rollback_events) :
                    /\ m_rollback_events[e].type = "change"
                    /\ m_rollback_events[e].h = last.h
                    /\ m_rollback_events[e].key \notin DOMAIN m_service_nodes_infos}) = 1

(***************************************************************************)
(* Properties of the waiting list                                          *)
(***************************************************************************)

\* the place of a registry entry in the waiting list
Cursor(info) == <<info.last_reward_block_height, info.last_reward_transaction_index>>

\* C34: in every registry state reached by block_added and
\* blockchain_detached no two distinct entries have the same pair
\* (last_reward_block_height, last_reward_transaction_index)
C34_CursorsDistinct ==
  \A a, b \in DOMAIN m_service_nodes_infos :
    a # b => Cursor(m_service_nodes_infos[a]) # Cursor(m_service_nodes_infos[b])

\* two nodes took their cursors in the same block, one as the winner of the
\* block and one from a transaction of the block
C34_Witness ==
  \E a, b \in DOMAIN m_service_nodes_infos :
    /\ a # b
    /\ m_service_nodes_infos[a].last_reward_block_height
         = m_service_nodes_infos[b].last_reward_block_height
    /\ m_service_nodes_infos[a].last_reward_transaction_index = UINT32_MAX
    /\ m_service_nodes_infos[b].last_reward_transaction_index = 0

(***************************************************************************)
(* Properties of the relay schedule                                        *)
(***************************************************************************)
\* the changes of relay method the pool allows
AllowedTransitions ==
  {<<"none", "local">>, <<"none", "stem">>, <<"none", "fluff">>, <<"none", "block">>,
   <<"local", "fluff">>, <<"local", "block">>,
   <<"stem", "fluff">>, <<"stem", "block">>,
   <<"fluff", "block">>}

\* the step is a call of add_tx
IsRelayAddStep == nadd' = nadd + 1

\* C35: the relay method of a transaction in the pool only changes along
\* none -> local/stem/fluff/block, local -> fluff/block, stem -> fluff/block,
\* fluff -> block under add_tx and set_relayed, and an add_tx in stem that is
\* admitted for a transaction the pool holds in stem moves it to fluff
C35_RelayMethodMovesForward ==
  [][/\ \A id \in DOMAIN txpool \cap DOMAIN txpool' :
          \/ txpool'[id].relay_method = txpool[id].relay_method
          \/ <<txpool[id].relay_method, txpool'[id].relay_method>> \in AllowedTransitions
     /\ (/\ IsRelayAddStep
         /\ tvc'.tx_relay = "stem"
         /\ tvc'.ret
         /\ tvc'.id \in DOMAIN txpool
         /\ txpool[tvc'.id].relay_method = "stem"
         /\ tvc'.id \in DOMAIN txpool')
        => txpool'[tvc'.id].relay_method = "fluff"]_vars

\* the second add_tx came in on the stem for a transaction the pool held in
\* stem: it was written again, as fluff
C35_Witness ==
  /\ nadd = 2
  /\ tvc.op = "add_tx"
  /\ tvc.tx_relay = "stem"
  /\ tvc.ret
  /\ tvc.id \in DOMAIN txpool
  /\ txpool[tvc.id].relay_method = "fluff"
  /\ Cardinality({e \in m_txs_by_fee_and_receive_time : e.id = tvc.id}) = 2

(***************************************************************************)
(* Properties of the service-node payout                                   *)
(***************************************************************************)
\* the amounts construct_miner_tx pays to the entries of a winner list
Payouts(info, parts, hf) ==
  [i \in 1..Len(info) |-> [amount |-> PortionAmount(info, i - 1, parts, hf)]]

\* the reward parts of the next block when the node of key k is its winner
PartsFor(k, r) ==
  get_equilibria_block_reward(r.reward, r.governance, r.dev_fund, AlreadyGenerated(Top),
                              HardFork(cfg, Top),
                              get_winner_addresses_and_portions(St, k, HardFork(cfg, Top - 1)),
                              Fee)

WinnerVersions == {9, 10, 12, 13}

\* select_winner under version hf when the map is walked in iteration order
select_winner_at(hf, order) ==
  SelectLoop(m_service_nodes_infos, order, hf, <<UINT64_MAX, UINT32_MAX>>, null_pkey, FALSE)

C38_WeightAndOrderingConsistent ==
  /\ m_txpool_weight = SumWeights(txpool)
  /\ \A id \in DOMAIN txpool : EntriesOf(m_txs_by_fee_and_receive_time, id) = 1


(***************************************************************************)
(* Properties of the reward rotation                                       *)
(***************************************************************************)
\* the test select_winner puts an entry to under version hf, the
\* over-portioned flag of hard fork 12 left aside
EligibleWinner(info, hf) == (is_valid(info) /\ hf > 9) \/ is_fully_funded(info)

\* node k is in the registry each of the blocks chain[i..j] is applied to and
\* eligible there, and none of these blocks carries a transaction
StaysEligible(k, i, j) ==
  \A m \in i..j :
    /\ k \in DOMAIN snap[m]
    /\ EligibleWinner(snap[m][k], HardFork(cfg, chain[m].height))
    /\ chain[m].txs = <<>>

\* C39: every block naming select_winner() of the registry it is applied to,
\* a node rewarded in block H has the cursor (H, UINT32_MAX) afterwards, and
\* it is not rewarded again before every other node that stays in the
\* registry and eligible, without a contribution or re-registration, has
\* been rewarded
C39_RewardsRotate ==
  \A i \in 1..Len(chain) :
    LET a == chain[i].winner
    IN (a # null_pkey /\ a \in DOMAIN snap[i]) =>
         /\ (i < Len(chain) /\ a \in DOMAIN snap[i + 1] /\ chain[i].txs = <<>>)
              => Cursor(snap[i + 1][a]) = <<chain[i].height, UINT32_MAX>>
         /\ \A j \in (i + 1)..Len(chain) :
              (chain[j].winner = a /\ StaysEligible(a, i, j)) =>
                \A b \in DOMAIN snap[i] \ {a} :
                  StaysEligible(b, i, j) =>
                    \E m \in (i + 1)..(j - 1) : chain[m].winner = b

\* a was rewarded, then b, then a again, both in the registry and eligible
\* throughout
C39_Witness ==
  /\ last.op = "add"
  /\ Len(chain) >= 3
  /\ \E a, b \in DOMAIN snap[Len(chain) - 2] :
       /\ a # b
       /\ chain[Len(chain) - 2].winner = a
       /\ chain[Len(chain) - 1].winner = b
       /\ chain[Len(chain)].winner = a
       /\ StaysEligible(a, Len(chain) - 2, Len(chain))
       /\ StaysEligible(b, Len(chain) - 2, Len(chain))


(***************************************************************************)
(* Properties of the stem embargo                                          *)
(***************************************************************************)
\* the conditions under which a transaction is relayed at all: a fee, not
\* pruned, not do_not_relay, not older than half its maximum lifetime
RelayedAtAll(meta, time) ==
  /\ meta.fee > 0
  /\ ~meta.pruned
  /\ ~do_not_relay(meta)
  /\ Sub64(time, meta.receive_time)
       <= (IF kept_by_block(meta) THEN CRYPTONOTE_MEMPOOL_TX_FROM_ALT_BLOCK_LIVETIME
           ELSE CRYPTONOTE_MEMPOOL_TX_LIVETIME) \div 2

\* C40: while a transaction is in the stem phase its last_relayed_time is
\* the embargo deadline: get_relayable_transactions does not return it
\* before the deadline and returns it after the deadline when it is relayed
\* at all
C40_StemEmbargoed ==
  tvc.op = "get_relayable_transactions" =>
    \A id \in DOMAIN txpool :
      dandelionpp_stem(txpool[id]) =>
        /\ now < txpool[id].last_relayed_time => id \notin tvc.txs
        /\ (now > txpool[id].last_relayed_time /\ RelayedAtAll(txpool[id], now))
             => id \in tvc.txs

====
